---- MODULE Spec2Model ----
(***************************************************************************)
(* Data-access gateway: request lifecycle, per-session rate limiter,       *)
(* admission gate, identity-aware connection leases and the transaction    *)
(* handler.  Each subsystem has its own variables and its own              *)
(* specification; a specification leaves the other subsystems' variables   *)
(* unchanged.                                                               *)
(***************************************************************************)
EXTENDS Integers, Sequences, FiniteSets, TLC

\* ------------------------------------------------------------------------
\* Bounds of the model
\* ------------------------------------------------------------------------
MaxTime == 3
NumCallers == 2
NumReqs == 2
MaxDepth == 3
MaxConns == 3
MaxOps == 2
MaxFetches == 2
MaxFilters == 2

\* Configured values (Settings); small values of the configurable limits.
MaxRequests == 2
WindowSeconds == 2
CleanupIntervalSeconds == 3
MaxConcurrentQueries == 1

\* max_batch_size (default 1000) and max_transaction_statements (default 50),
\* scaled
MaxBatchSize == 2
MaxTransactionStatements == 2

\* default_read_limit (default 1000) and max_read_limit (default 10000), scaled
DefaultReadLimit == 2
MaxReadLimit == 3

\* query_timeout_seconds (default 900), scaled
QueryTimeoutSeconds == 2
WarmupTtlSeconds == 2
WarmupFailureBackoffSeconds == 1
SchemaTtlSeconds == 1

None == "None"

\* ------------------------------------------------------------------------
\* State
\* ------------------------------------------------------------------------
\* SessionRateLimiter and the monotonic clock
VARIABLES
    clock,        \* time.monotonic()
    sessions,     \* _sessions: session id -> deque of timestamps
    chkPc,        \* per caller: position inside check()
    chkSid,       \* per caller: session_id argument
    chkNow,       \* per caller: local `now` read at line 31
    chkResult,    \* per caller: last value returned by check()
    admitted,     \* history: session id -> [timestamp -> number of True returns]
    clnPc,        \* cleanup_stale: position
    clnNow        \* cleanup_stale: local `now`

rlVars == <<clock, sessions, chkPc, chkSid, chkNow, chkResult, admitted, clnPc, clnNow>>

\* RequestLifecycle, OperationManager, AdmissionGate: one slot per worker task
VARIABLES
    permits,      \* AdmissionGate._semaphore: free slots
    lastCleanup,  \* RequestLifecycle._last_cleanup
    pc,           \* per worker: position inside execute()/process()
    req,          \* per worker: the request (operation, mode), or Malformed
    phases,       \* per worker: phases entered through update_phase, in order
    exc,          \* per worker: exception being handled
    failedAt,     \* per worker: where that exception was raised
    resp,         \* per worker: response returned by execute()
    procOutcome,  \* per worker: how process() ended ("returned" / "raised")
    hresult,      \* per worker: handler_result
    handlerCalls, \* per worker: invocations of handler.handle
    acq,          \* per worker: successful try_acquire calls
    rel,          \* per worker: release calls
    gateFull      \* per worker: the gate was at capacity at its try_acquire

lcVars == <<permits, lastCleanup, pc, req, phases, exc, failedAt, resp, procOutcome,
            hresult, handlerCalls, acq, rel, gateFull>>

\* ConnectionPool: the task-local slots and the leases of one worker task
VARIABLES
    spConn,       \* _local.sp_conn (0 when None)
    oboConn,      \* _local.obo_conn (0 when None)
    oboToken,     \* _local.obo_token
    conns,        \* connections opened so far: token asked for, credential, close() calls
    stack,        \* active leases, outermost first: token, connection yielded, branch
    closeRaised,  \* an error of close() left get_connection
    createFailed, \* the last lease attempt ended in _create_connection raising
    lastClose     \* the most recent close(): which connection, on what exit, its outcome

poolVars == <<spConn, oboConn, oboToken, conns, stack, closeRaised, createFailed,
              lastClose>>

\* TransactionHandler.handle, transaction_context and the database behind the
\* connection
VARIABLES
    txPc,          \* position inside handle()
    txOps,         \* request.operations
    txToken,       \* ctx.obo_token
    txIdx,         \* index of the sub-operation the loop is at
    txErr,         \* exception travelling up from the with blocks (None when none)
    txFailedAt,    \* index of the sub-operation that raised (0 when none)
    txResp,        \* what handle() returned: "none", "success", "failure", "raised"
    totalAffected, \* total_affected
    hasAutocommit, \* hasattr(conn, "autocommit")
    autocommit,    \* conn.autocommit
    originalAutocommit, \* original_autocommit
    dbCommitted,   \* sub-operations whose effect is durable in the database
    dbPending,     \* sub-operations applied inside the open database transaction
    txLog          \* statements handed to execute_non_query, in the order of the
                   \* calls: sub-operation, connection, completed, row count

txVars == <<txPc, txOps, txToken, txIdx, txErr, txFailedAt, txResp, totalAffected,
            hasAutocommit, autocommit, originalAutocommit, dbCommitted, dbPending, txLog>>

\* WarehouseWarmupGate and the callers of maybe_warm
VARIABLES
    wLastSuccess,  \* _last_success_monotonic (None until a warmup succeeded)
    wLastAttempt,  \* _last_attempt_monotonic
    wLock,         \* _lock: the caller holding it, 0 when free
    wEnvToken,     \* os.environ.get("DATABRICKS_TOKEN") is set ("unread" until read)
    wPc,           \* per caller: position inside maybe_warm
    wNow,          \* per caller: local `now`
    wResult,       \* per caller: value returned by the last call
    wFailedAt,     \* history: attempt stamp of the most recent failed attempt
    wWaitedSuccess \* history, per caller: when a warmup succeeded while it waited for _lock

warmVars == <<wLastSuccess, wLastAttempt, wLock, wEnvToken, wPc, wNow, wResult,
              wFailedAt, wWaitedSuccess>>

\* SchemaProvider, SchemaCache and the callers of get_table_schema and
\* invalidate_table_schema for one table key
VARIABLES
    wall,          \* datetime.now()
    sMemory,       \* per provider instance: SchemaCache._memory[T]
    sFile,         \* the JSON file of T under cache/schema (shared by the instances)
    sInflight,     \* per provider instance: SchemaProvider._inflight[T] (0 when absent)
    sSeq,          \* history: number of information_schema fetches completed
    sPc,           \* per thread: position inside the call
    sProv,         \* per thread: the provider instance called
    sLock,         \* per thread: the lock object obtained from _get_inflight_lock
    sLoaded,       \* per thread: schema returned by _load_from_file
    sResult,       \* per thread: what its last get_table_schema returned
    sInvalidated   \* history: newest fetch cached when invalidate was last called

schVars == <<wall, sMemory, sFile, sInflight, sSeq, sPc, sProv, sLock, sLoaded, sResult,
             sInvalidated>>

\* one OperationManager.execute call followed from its arguments to the
\* OperationResponse it returns
VARIABLES
    call    \* pc: position; req: the request; caller: the correlation_id argument;
            \* ctx: ExecutionContext.correlation_id; warm: what maybe_warm did;
            \* successBefore: the success stamp when maybe_warm was called;
            \* resolved, resolveFailed: outcome of _maybe_resolve_schema;
            \* handler: the value handler.handle returned; invoked: handle was
            \* called; exc, failedAt: the exception in flight and where it was
            \* raised; resp: the response returned

envVars == <<call>>

\* the driver calls of concurrent requests: warmup statement, schema fetch of
\* RESOLVE, statements of the handler
VARIABLES
    drv     \* per request: pc (position in process) and op (request.operation)

drvVars == <<drv>>

\* one request and the deadline of its driver calls
VARIABLES
    tmo     \* pc, op (request.operation), elapsed (age of the running statement), cancels (calls of
            \* cursor.cancel), cancelErr (the last cancel raised), overdue (phases whose statement outlived the
            \* deadline), slot (admission slot held), success, category

tmoVars == <<tmo>>

\* one request on its way through VALIDATE, THROTTLE and EXECUTE
VARIABLES
    val     \* pc, request, message and category of the rejection, quota (rate
            \* limiter entries consumed), handlerCalls, leases, statements

valVars == <<val>>

\* one single-record mutation in WriteSingleHandler / DeleteSingleHandler
VARIABLES
    wr      \* pc, op, old (options.old_values: absent, empty, present), raised,
            \* rc (row count of the statement), result (of handle), resp

wrVars == <<wr>>

\* one READ on its way to a SELECT statement
VARIABLES
    sel     \* pc, path (ReadSingle / ReadBatch), limit and offset of
            \* request.options, rejected, emitted LIMIT and OFFSET

selVars == <<sel>>

\* one UPDATE / MERGE request in WriteSingleHandler or WriteBatchHandler
VARIABLES
    upd     \* pc, request, idx (record the loop is at), intent (of the
            \* statement built last), builtFor (intents a statement was built
            \* for), executed (statements handed to the driver), rejected

updVars == <<upd>>

\* one WHERE / HAVING clause being compiled by the SQL engine
VARIABLES
    bld     \* pc, filters (of the intent), normalized (filters went through
            \* normalize_operator), k (filter the loop is at), preds (compiled
            \* predicates), sqlNames (placeholder names in the SQL), params
            \* (keys of the parameter mapping), values (values bound so far)

bldVars == <<bld>>

VARIABLES
    sg      \* inst (the module global of each singleton, 0 when None), made
            \* (instances constructed), lock (holder of the getter's lock, 0
            \* when free), and per caller and singleton: pc, mine (the
            \* instance the caller constructed), ret (what the getter returned)

sgVars == <<sg>>

VARIABLES
    auth    \* pc, key (the casing of each word of the header name the request
            \* carries), carried (the headers hold the access token header),
            \* explicit (obo_token argument given), token (ctx.obo_token:
            \* none / header / explicit), identity (of the leased connection)

authVars == <<auth>>

VARIABLES
    late    \* pc, n (statements of the request), k (statement the loop is
            \* at), worker (the dbx-exec-non-query thread of statement k),
            \* timedOut (TimeoutError raised for k), autocommit, original
            \* (autocommit before transaction_context), closed
            \* (connection released), pending / committed (statements whose
            \* effect is in the open transaction / durable)

lateVars == <<late>>

VARIABLES
    grd     \* pc, request, idx (record or sub-operation the handler is at),
            \* statements (per statement handed to the driver: the key sets
            \* of the rows of its WHERE clause), rejected

grdVars == <<grd>>

VARIABLES
    bw      \* pc, op, n (records of the payload), where, has (the connection
            \* has an autocommit attribute), leases (get_connection calls),
            \* idx, log (per statement: record index, where used, lease),
            \* pending / committed (records whose statement is in the open
            \* transaction / durable), failedAt, rejected, category

bwVars == <<bw>>

VARIABLES
    stale   \* pc, window and interval (rate_limit_window_seconds and
            \* rate_limit_cleanup_interval_seconds of the settings), now (the
            \* monotonic clock), tracked (the session is in _sessions), ts
            \* (its deque), lastCleanup, chk and cln (position and clock
            \* reading of check and of the cleanup), removedLive

staleVars == <<stale>>

VARIABLES
    quo     \* pc, op, sid (the UI session, 0 when there is none), valid
            \* (the request passes _validate), now, ts (the deque of session
            \* 1), before (the deque when the request arrived), rec
            \* (timestamps this request appended), stamp (the one it
            \* appended), lastCleanup, outcome

quoVars == <<quo>>

vars == <<rlVars, lcVars, poolVars, txVars, warmVars, schVars, envVars, drvVars, tmoVars, valVars, wrVars, selVars, updVars, bldVars, sgVars, authVars, lateVars, grdVars, bwVars, staleVars, quoVars>>

\* the limiter's state without the clock
rlRest == <<sessions, chkPc, chkSid, chkNow, chkResult, admitted, clnPc, clnNow>>

\* what the actions of one subsystem leave alone
RateFrame == <<lcVars, poolVars, txVars, warmVars, schVars, envVars, drvVars, tmoVars, valVars, wrVars, selVars, updVars, bldVars, sgVars, authVars, lateVars, grdVars, bwVars, staleVars, quoVars>>
LifeFrame == <<poolVars, txVars, warmVars, schVars, envVars, drvVars, tmoVars, valVars, wrVars, selVars, updVars, bldVars, sgVars, authVars, lateVars, grdVars, bwVars, staleVars, quoVars>>
PoolFrame == <<rlVars, lcVars, txVars, warmVars, schVars, envVars, drvVars, tmoVars, valVars, wrVars, selVars, updVars, bldVars, sgVars, authVars, lateVars, grdVars, bwVars, staleVars, quoVars>>
TxnFrame == <<rlVars, lcVars, warmVars, schVars, envVars, drvVars, tmoVars, valVars, wrVars, selVars, updVars, bldVars, sgVars, authVars, lateVars, grdVars, bwVars, staleVars, quoVars>>
WarmFrame == <<rlRest, lcVars, txVars, schVars, envVars, drvVars, tmoVars, valVars, wrVars, selVars, updVars, bldVars, sgVars, authVars, lateVars, grdVars, bwVars, staleVars, quoVars>>
SchemaFrame == <<rlVars, lcVars, poolVars, txVars, warmVars, envVars, drvVars, tmoVars, valVars, wrVars, selVars, updVars, bldVars, sgVars, authVars, lateVars, grdVars, bwVars, staleVars, quoVars>>
EnvFrame == <<rlRest, lcVars, txVars, schVars, drvVars, tmoVars, valVars, wrVars, selVars, updVars, bldVars, sgVars, authVars, lateVars, grdVars, bwVars, staleVars, quoVars>>
DrvFrame == <<rlVars, poolVars, txVars, schVars, envVars, tmoVars, valVars, wrVars, selVars, updVars, bldVars, sgVars, authVars, lateVars, grdVars, bwVars, staleVars, quoVars>>
TmoFrame == <<rlVars, lcVars, poolVars, txVars, warmVars, schVars, envVars, drvVars, valVars, wrVars, selVars, updVars, bldVars, sgVars, authVars, lateVars, grdVars, bwVars, staleVars, quoVars>>
ValFrame == <<rlVars, lcVars, poolVars, txVars, warmVars, schVars, envVars, drvVars, tmoVars, wrVars, selVars, updVars, bldVars, sgVars, authVars, lateVars, grdVars, bwVars, staleVars, quoVars>>
WriteFrame == <<rlVars, lcVars, poolVars, txVars, warmVars, schVars, envVars, drvVars, tmoVars, valVars, selVars, updVars, bldVars, sgVars, authVars, lateVars, grdVars, bwVars, staleVars, quoVars>>
SelectFrame == <<rlVars, lcVars, poolVars, txVars, warmVars, schVars, envVars, drvVars, tmoVars, valVars, wrVars, updVars, bldVars, sgVars, authVars, lateVars, grdVars, bwVars, staleVars, quoVars>>
UpdateFrame == <<rlVars, lcVars, poolVars, txVars, warmVars, schVars, envVars, drvVars, tmoVars, valVars, wrVars, selVars, bldVars, sgVars, authVars, lateVars, grdVars, bwVars, staleVars, quoVars>>
BuildFrame == <<rlVars, lcVars, poolVars, txVars, warmVars, schVars, envVars, drvVars, tmoVars, valVars, wrVars, selVars, updVars, sgVars, authVars, lateVars, grdVars, bwVars, staleVars, quoVars>>
SingletonFrame == <<rlVars, lcVars, poolVars, txVars, warmVars, schVars, envVars, drvVars, tmoVars, valVars, wrVars, selVars, updVars, bldVars, authVars, lateVars, grdVars, bwVars, staleVars, quoVars>>
AuthFrame == <<rlVars, lcVars, poolVars, txVars, warmVars, schVars, envVars, drvVars, tmoVars, valVars, wrVars, selVars, updVars, bldVars, sgVars, lateVars, grdVars, bwVars, staleVars, quoVars>>
LateFrame == <<rlVars, lcVars, poolVars, txVars, warmVars, schVars, envVars, drvVars, tmoVars, valVars, wrVars, selVars, updVars, bldVars, sgVars, authVars, grdVars, bwVars, staleVars, quoVars>>
GuardFrame == <<rlVars, lcVars, poolVars, txVars, warmVars, schVars, envVars, drvVars, tmoVars, valVars, wrVars, selVars, updVars, bldVars, sgVars, authVars, lateVars, bwVars, staleVars, quoVars>>
BatchWhereFrame == <<rlVars, lcVars, poolVars, txVars, warmVars, schVars, envVars, drvVars, tmoVars, valVars, wrVars, selVars, updVars, bldVars, sgVars, authVars, lateVars, grdVars, staleVars, quoVars>>
StaleFrame == <<rlVars, lcVars, poolVars, txVars, warmVars, schVars, envVars, drvVars, tmoVars, valVars, wrVars, selVars, updVars, bldVars, sgVars, authVars, lateVars, grdVars, bwVars, quoVars>>
QuotaFrame == <<rlVars, lcVars, poolVars, txVars, warmVars, schVars, envVars, drvVars, tmoVars, valVars, wrVars, selVars, updVars, bldVars, sgVars, authVars, lateVars, grdVars, bwVars, staleVars>>
lcRest == <<lastCleanup, pc, req, phases, exc, failedAt, resp, procOutcome, hresult,
            handlerCalls, acq, rel, gateFull>>
wRest == <<wEnvToken, wPc, wNow, wResult, wFailedAt, wWaitedSuccess>>


Range(f) == {f[x] : x \in DOMAIN f}

\* ------------------------------------------------------------------------
\* SessionRateLimiter (infrastructure/rate_limit.py)
\* ------------------------------------------------------------------------

Callers == 1..NumCallers
SessionIds == {"s1"}
Times == 0..MaxTime

\* deque.popleft() while timestamps[0] <= cutoff
RECURSIVE Evict(_, _)
Evict(ts, cutoff) ==
    IF ts # << >> /\ Head(ts) <= cutoff THEN Evict(Tail(ts), cutoff) ELSE ts

\* timestamps = self._sessions.get(session_id); deque() when missing
SessionDeque(sid) == IF sid \in DOMAIN sessions THEN sessions[sid] ELSE << >>

\* an admission test that lets one request too many through
HasRoomOffByOne(ts) == Len(ts) <= MaxRequests

\* the admission test of check(), on the evicted deque
HasRoom(ts) == Len(ts) < MaxRequests

InitRate ==
    /\ clock = 0
    /\ sessions = << >>
    /\ chkPc = [c \in Callers |-> "idle"]
    /\ chkSid = [c \in Callers |-> None]
    /\ chkNow = [c \in Callers |-> 0]
    /\ chkResult = [c \in Callers |-> None]
    /\ admitted = [s \in SessionIds |-> [t \in Times |-> 0]]
    /\ clnPc = "idle"
    /\ clnNow = 0

\* the monotonic clock advances
Tick ==
    /\ clock < MaxTime
    /\ clock' = clock + 1
    /\ UNCHANGED <<sessions, chkPc, chkSid, chkNow, chkResult, admitted, clnPc, clnNow>>
    /\ UNCHANGED RateFrame

\* check(None): always allowed, no state touched
CheckNone(c) ==
    /\ chkPc[c] = "idle"
    /\ chkResult' = [chkResult EXCEPT ![c] = "True"]
    /\ UNCHANGED <<clock, sessions, chkPc, chkSid, chkNow, admitted, clnPc, clnNow>>
    /\ UNCHANGED RateFrame

\* check(sid): now = time.monotonic(); cutoff = now - window  (before the lock)
CheckReadClock(c, sid) ==
    /\ chkPc[c] = "idle"
    /\ chkSid' = [chkSid EXCEPT ![c] = sid]
    /\ chkNow' = [chkNow EXCEPT ![c] = clock]
    /\ chkPc' = [chkPc EXCEPT ![c] = "lock"]
    /\ UNCHANGED <<clock, sessions, chkResult, admitted, clnPc, clnNow>>
    /\ UNCHANGED RateFrame

\* check(sid): the body under self._lock
CheckLocked(c) ==
    /\ chkPc[c] = "lock"
    /\ LET sid == chkSid[c]
           now == chkNow[c]
           ts == Evict(SessionDeque(sid), now - WindowSeconds)
       IN IF HasRoom(ts)
          THEN /\ sessions' = [s \in (DOMAIN sessions) \cup {sid} |->
                                 IF s = sid THEN Append(ts, now) ELSE sessions[s]]
               /\ admitted' = [admitted EXCEPT ![sid][now] = @ + 1]
               /\ chkResult' = [chkResult EXCEPT ![c] = "True"]
          ELSE /\ sessions' = [s \in (DOMAIN sessions) \cup {sid} |->
                                 IF s = sid THEN ts ELSE sessions[s]]
               /\ admitted' = admitted
               /\ chkResult' = [chkResult EXCEPT ![c] = "False"]
    /\ chkPc' = [chkPc EXCEPT ![c] = "idle"]
    /\ chkSid' = [chkSid EXCEPT ![c] = None]
    /\ chkNow' = [chkNow EXCEPT ![c] = 0]
    /\ UNCHANGED <<clock, clnPc, clnNow>>
    /\ UNCHANGED RateFrame

\* a session is stale when its deque is empty or its newest entry is old
IsStale(ts, cutoff) == ts = << >> \/ ts[Len(ts)] <= cutoff

\* cleanup_stale: now = time.monotonic()  (before the lock)
CleanupReadClock ==
    /\ clnPc = "idle"
    /\ clnNow' = clock
    /\ clnPc' = "lock"
    /\ UNCHANGED <<clock, sessions, chkPc, chkSid, chkNow, chkResult, admitted>>
    /\ UNCHANGED RateFrame

\* cleanup_stale: the body under self._lock
CleanupLocked ==
    /\ clnPc = "lock"
    /\ LET cutoff == clnNow - CleanupIntervalSeconds
           keep == {s \in DOMAIN sessions : ~IsStale(sessions[s], cutoff)}
       IN sessions' = [s \in keep |-> sessions[s]]
    /\ clnPc' = "idle"
    /\ clnNow' = 0
    /\ UNCHANGED <<clock, chkPc, chkSid, chkNow, chkResult, admitted>>
    /\ UNCHANGED RateFrame


\* ------------------------------------------------------------------------
\* Error taxonomy (contracts/exceptions.py, contracts/errors.py)
\* ------------------------------------------------------------------------
\* class -> base class
BaseClass(e) ==
    CASE e = "TokenExpiredError" -> "AuthenticationError"
      [] e \in {"ValidationError", "SecurityError", "ConnectionError", "TimeoutError",
                "ThrottleError", "AdmissionError", "NotFoundError", "ConflictError",
                "AuthenticationError", "AuthorizationError", "QueryExecutionError",
                "MetadataAccessError"} -> "OperationError"
      [] OTHER -> "Exception"

RECURSIVE IsInstance(_, _)
IsInstance(e, cls) ==
    IF e = cls THEN TRUE
    ELSE IF e = "Exception" THEN FALSE
    ELSE IsInstance(BaseClass(e), cls)

\* a mapping that has no branch for AdmissionError
CategoryWithoutAdmission(e) ==
    IF IsInstance(e, "ValidationError") THEN "VALIDATION"
    ELSE IF IsInstance(e, "SecurityError") THEN "SECURITY"
    ELSE IF IsInstance(e, "AuthorizationError") THEN "AUTHORIZATION"
    ELSE IF IsInstance(e, "AuthenticationError") THEN "AUTHENTICATION"
    ELSE IF IsInstance(e, "NotFoundError") THEN "NOT_FOUND"
    ELSE IF IsInstance(e, "ConflictError") THEN "CONFLICT"
    ELSE IF IsInstance(e, "ConnectionError") THEN "CONNECTION"
    ELSE IF IsInstance(e, "TimeoutError") THEN "TIMEOUT"
    ELSE IF IsInstance(e, "ThrottleError") THEN "THROTTLE"
    ELSE "UNKNOWN"

CategoryFromException(e) ==
    IF IsInstance(e, "ValidationError") THEN "VALIDATION"
    ELSE IF IsInstance(e, "SecurityError") THEN "SECURITY"
    ELSE IF IsInstance(e, "AuthorizationError") THEN "AUTHORIZATION"
    ELSE IF IsInstance(e, "AuthenticationError") THEN "AUTHENTICATION"
    ELSE IF IsInstance(e, "NotFoundError") THEN "NOT_FOUND"
    ELSE IF IsInstance(e, "ConflictError") THEN "CONFLICT"
    ELSE IF IsInstance(e, "ConnectionError") THEN "CONNECTION"
    ELSE IF IsInstance(e, "TimeoutError") THEN "TIMEOUT"
    ELSE IF IsInstance(e, "ThrottleError") THEN "THROTTLE"
    ELSE IF IsInstance(e, "AdmissionError") THEN "ADMISSION"
    ELSE "UNKNOWN"

\* _error_response / OperationManager.execute's except: the failure envelope
ErrorResponse(e) ==
    [present |-> TRUE, success |-> FALSE, category |-> CategoryFromException(e)]

SuccessResponse == [present |-> TRUE, success |-> TRUE, category |-> None]

\* ------------------------------------------------------------------------
\* Request lifecycle (dispatcher/lifecycle.py, dispatcher/manager.py),
\* admission gate (infrastructure/admission.py), router (dispatcher/router.py)
\* ------------------------------------------------------------------------

Reqs == 1..NumReqs

\* an object that is not an OperationRequest (it has no attributes), and the
\* empty slots of the per-worker variables
Malformed == [isRequest |-> FALSE, operation |-> None, mode |-> None, scenario |-> None]
NoRequest == [isRequest |-> FALSE, operation |-> "-", mode |-> "-", scenario |-> None]
NoResponse == [present |-> FALSE, success |-> FALSE, category |-> None]

\* the requests submitted: (operation, mode) pairs, and an object that is no
\* OperationRequest
RequestKinds ==
    { [isRequest |-> TRUE, operation |-> "READ", mode |-> "SINGLE", scenario |-> None],
      [isRequest |-> TRUE, operation |-> "INSERT", mode |-> "NAMED", scenario |-> None],
      [isRequest |-> TRUE, operation |-> "HEARTBEAT", mode |-> "SINGLE", scenario |-> None],
      [isRequest |-> TRUE, operation |-> "SCHEMA", mode |-> "SINGLE",
       scenario |-> "list_tables"] } \cup {Malformed}

PhaseOrder == <<"VALIDATE", "THROTTLE", "AUTHN", "ROUTE", "WARMUP", "RESOLVE",
                "EXECUTE", "SHAPE", "OBSERVE">>

\* HandlerRegistry._initialize_handlers: the registered keys
RegisteredKeys ==
    {"heartbeat", "transaction.multi",
     "schema.list_catalogs", "schema.list_schemas", "schema.list_tables",
     "schema.table_columns", "schema.table_info", "schema.invalidate_table_schema",
     "read.single", "read.named", "read.batch",
     "insert.single", "update.single", "merge.single",
     "insert.batch", "update.batch", "merge.batch",
     "delete.single", "delete.batch"}

Lower(x) ==
    CASE x = "READ" -> "read" [] x = "INSERT" -> "insert" [] x = "UPDATE" -> "update"
      [] x = "MERGE" -> "merge" [] x = "DELETE" -> "delete"
      [] x = "SINGLE" -> "single" [] x = "BATCH" -> "batch" [] x = "NAMED" -> "named"

\* OperationRouter.resolve: the handler key of a request
HandlerKey(rq) ==
    IF rq.operation = "HEARTBEAT" THEN <<"heartbeat">>
    ELSE IF rq.operation = "TRANSACTION" THEN <<"transaction.multi">>
    ELSE IF rq.operation = "SCHEMA" THEN <<"schema", rq.scenario>>
    ELSE <<Lower(rq.operation), Lower(rq.mode)>>

KeyString(k) ==
    IF Len(k) = 1 THEN k[1]
    ELSE CASE k = <<"schema", "list_catalogs">> -> "schema.list_catalogs"
           [] k = <<"schema", "list_schemas">> -> "schema.list_schemas"
           [] k = <<"schema", "list_tables">> -> "schema.list_tables"
           [] k = <<"schema", "table_columns">> -> "schema.table_columns"
           [] k = <<"schema", "table_info">> -> "schema.table_info"
           [] k = <<"schema", "invalidate_table_schema">> -> "schema.invalidate_table_schema"
           [] k = <<"read", "single">> -> "read.single"
           [] k = <<"read", "named">> -> "read.named"
           [] k = <<"read", "batch">> -> "read.batch"
           [] k = <<"insert", "single">> -> "insert.single"
           [] k = <<"update", "single">> -> "update.single"
           [] k = <<"merge", "single">> -> "merge.single"
           [] k = <<"insert", "batch">> -> "insert.batch"
           [] k = <<"update", "batch">> -> "update.batch"
           [] k = <<"merge", "batch">> -> "merge.batch"
           [] k = <<"delete", "single">> -> "delete.single"
           [] k = <<"delete", "batch">> -> "delete.batch"
           [] OTHER -> "unregistered"

\* OperationRouter.resolve returns a handler: a SCHEMA request names its
\* scenario and HandlerRegistry.get finds the key
Routable(rq) ==
    /\ rq.operation = "SCHEMA" => rq.scenario # None
    /\ KeyString(HandlerKey(rq)) \in RegisteredKeys

\* needs_admission
NeedsAdmission(rq) == rq.operation \notin {"HEARTBEAT", "SCHEMA"}

\* a gate that grants one slot too many
TryAcquireOffByOne(p) == p >= 0

\* AdmissionGate.try_acquire: semaphore.acquire(blocking=False) is granted
TryAcquire(p) == p > 0

\* exceptions a handler is seen to raise, and a failing SHAPE conversion
HandlerExceptions == {"TimeoutError"}
ShapeExceptions == {"TypeError"}
ValidateExceptions == {"ValidationError"}

\* handlers that catch their own failure return a failure envelope built by
\* BaseHandler._handle_error
HandlerResults == {SuccessResponse} \cup {ErrorResponse(e) : e \in HandlerExceptions}

\* requests holding an admission slot inside handler.handle
Executing == {r \in Reqs : pc[r] = "execute" /\ NeedsAdmission(req[r])}

InitLife ==
    /\ permits = MaxConcurrentQueries
    /\ lastCleanup = 0
    /\ pc = [r \in Reqs |-> "idle"]
    /\ req = [r \in Reqs |-> NoRequest]
    /\ phases = [r \in Reqs |-> << >>]
    /\ exc = [r \in Reqs |-> None]
    /\ failedAt = [r \in Reqs |-> None]
    /\ resp = [r \in Reqs |-> NoResponse]
    /\ procOutcome = [r \in Reqs |-> None]
    /\ hresult = [r \in Reqs |-> NoResponse]
    /\ handlerCalls = [r \in Reqs |-> 0]
    /\ acq = [r \in Reqs |-> 0]
    /\ rel = [r \in Reqs |-> 0]
    /\ gateFull = [r \in Reqs |-> FALSE]

\* update_phase(ph)
Enter(r, ph) == phases' = [phases EXCEPT ![r] = Append(@, ph)]

\* an except clause that catches the typed errors only
CaughtOperationErrorOnly(e) == IsInstance(e, "OperationError")

\* `except Exception` of process(): the classes the clause catches
Caught(e) == IsInstance(e, "Exception")

\* an exception e raised at `where` inside the try block of process(): handled
\* by the except clause, or else propagated to OperationManager.execute
Raise(r, e, where) ==
    /\ exc' = [exc EXCEPT ![r] = e]
    /\ failedAt' = [failedAt EXCEPT ![r] = where]
    /\ IF Caught(e)
       THEN /\ pc' = [pc EXCEPT ![r] = "except"]
            /\ UNCHANGED procOutcome
       ELSE /\ pc' = [pc EXCEPT ![r] = "mgrexcept"]
            /\ procOutcome' = [procOutcome EXCEPT ![r] = "raised"]

Goto(r, next) ==
    /\ pc' = [pc EXCEPT ![r] = next]
    /\ UNCHANGED <<exc, failedAt, procOutcome>>

\* an except clause that returns without observing
ExceptPhasesNone == << >>

\* phases entered by the except clause of process()
ExceptPhases == <<"OBSERVE">>

\* _observe: the periodic cleanup of stale rate-limiter sessions
ObserveEffect(sess) ==
    IF clock - lastCleanup >= CleanupIntervalSeconds
    THEN /\ lastCleanup' = clock
         /\ sessions' = [s \in {x \in DOMAIN sess :
                                  ~IsStale(sess[x], clock - CleanupIntervalSeconds)}
                           |-> sess[s]]
    ELSE /\ lastCleanup' = lastCleanup
         /\ sessions' = sess

\* OperationManager.execute is called: a fresh call on worker r
Submit(r, rq) ==
    /\ pc[r] \in {"idle", "done"}
    /\ pc' = [pc EXCEPT ![r] = "process"]
    /\ req' = [req EXCEPT ![r] = rq]
    /\ phases' = [phases EXCEPT ![r] = << >>]
    /\ exc' = [exc EXCEPT ![r] = None]
    /\ failedAt' = [failedAt EXCEPT ![r] = None]
    /\ resp' = [resp EXCEPT ![r] = NoResponse]
    /\ procOutcome' = [procOutcome EXCEPT ![r] = None]
    /\ hresult' = [hresult EXCEPT ![r] = NoResponse]
    /\ handlerCalls' = [handlerCalls EXCEPT ![r] = 0]
    /\ acq' = [acq EXCEPT ![r] = 0]
    /\ rel' = [rel EXCEPT ![r] = 0]
    /\ gateFull' = [gateFull EXCEPT ![r] = FALSE]
    /\ UNCHANGED <<permits, lastCleanup, rlVars>>
    /\ UNCHANGED LifeFrame

\* process(), lines 97-127, before the try block: reads request.operation and
\* request.table; an object without them raises AttributeError out of process(),
\* which execute() catches and shapes
Prologue(r) ==
    /\ pc[r] = "process"
    /\ IF ~req[r].isRequest
       THEN /\ procOutcome' = [procOutcome EXCEPT ![r] = "raised"]
            /\ exc' = [exc EXCEPT ![r] = "AttributeError"]
            /\ failedAt' = [failedAt EXCEPT ![r] = "PROLOGUE"]
            /\ pc' = [pc EXCEPT ![r] = "mgrexcept"]
       ELSE Goto(r, "validate")
    /\ UNCHANGED <<permits, lastCleanup, req, phases, resp, hresult, handlerCalls, acq,
                   rel, gateFull, rlVars>>
    /\ UNCHANGED LifeFrame

\* OperationManager.execute, except Exception: the failure envelope is returned
ManagerExcept(r) ==
    /\ pc[r] = "mgrexcept"
    /\ resp' = [resp EXCEPT ![r] = ErrorResponse(exc[r])]
    /\ exc' = [exc EXCEPT ![r] = None]
    /\ pc' = [pc EXCEPT ![r] = "done"]
    /\ UNCHANGED <<permits, lastCleanup, req, phases, failedAt, procOutcome, hresult,
                   handlerCalls, acq, rel, gateFull, rlVars>>
    /\ UNCHANGED LifeFrame

\* VALIDATE: _validate raises on a request that fails its checks
Validate(r) ==
    /\ pc[r] = "validate"
    /\ Enter(r, "VALIDATE")
    /\ \/ Goto(r, "throttle")
       \/ \E e \in ValidateExceptions : Raise(r, e, "VALIDATE")
    /\ UNCHANGED <<permits, lastCleanup, req, resp, hresult, handlerCalls, acq, rel,
                   gateFull, rlVars>>
    /\ UNCHANGED LifeFrame

\* THROTTLE: _throttle; HEARTBEAT is skipped, otherwise SessionRateLimiter.check
\* on the UI session id of the scoped context
Throttle(r, sid) ==
    /\ pc[r] = "throttle"
    /\ Enter(r, "THROTTLE")
    /\ IF req[r].operation = "HEARTBEAT" \/ sid = None
       THEN /\ Goto(r, "authn")
            /\ UNCHANGED <<sessions, admitted>>
       ELSE LET ts == Evict(SessionDeque(sid), clock - WindowSeconds)
            IN IF HasRoom(ts)
               THEN /\ sessions' = [s \in (DOMAIN sessions) \cup {sid} |->
                                      IF s = sid THEN Append(ts, clock) ELSE sessions[s]]
                    /\ admitted' = [admitted EXCEPT ![sid][clock] = @ + 1]
                    /\ Goto(r, "authn")
               ELSE /\ sessions' = [s \in (DOMAIN sessions) \cup {sid} |->
                                      IF s = sid THEN ts ELSE sessions[s]]
                    /\ admitted' = admitted
                    /\ Raise(r, "ThrottleError", "THROTTLE")
    /\ UNCHANGED <<permits, lastCleanup, req, resp, hresult, handlerCalls, acq, rel,
                   gateFull, clock, chkPc, chkSid, chkNow, chkResult, clnPc, clnNow>>
    /\ UNCHANGED LifeFrame

\* AUTHN: soft check, logs only
Authn(r) ==
    /\ pc[r] = "authn"
    /\ Enter(r, "AUTHN")
    /\ Goto(r, "route")
    /\ UNCHANGED <<permits, lastCleanup, req, resp, hresult, handlerCalls, acq, rel,
                   gateFull, rlVars>>
    /\ UNCHANGED LifeFrame

\* ROUTE: OperationRouter.resolve; an unregistered key raises ValueError
Route(r) ==
    /\ pc[r] = "route"
    /\ Enter(r, "ROUTE")
    /\ IF Routable(req[r]) THEN Goto(r, "warmup") ELSE Raise(r, "ValueError", "ROUTE")
    /\ UNCHANGED <<permits, lastCleanup, req, resp, hresult, handlerCalls, acq, rel,
                   gateFull, rlVars>>
    /\ UNCHANGED LifeFrame

\* WARMUP: best effort, failures are swallowed inside maybe_warm
Warmup(r) ==
    /\ pc[r] = "warmup"
    /\ Enter(r, "WARMUP")
    /\ Goto(r, "resolve")
    /\ UNCHANGED <<permits, lastCleanup, req, resp, hresult, handlerCalls, acq, rel,
                   gateFull, rlVars>>
    /\ UNCHANGED LifeFrame

\* RESOLVE: best effort, failures are swallowed inside _maybe_resolve_schema
Resolve(r) ==
    /\ pc[r] = "resolve"
    /\ Enter(r, "RESOLVE")
    /\ Goto(r, "gate")
    /\ UNCHANGED <<permits, lastCleanup, req, resp, hresult, handlerCalls, acq, rel,
                   gateFull, rlVars>>
    /\ UNCHANGED LifeFrame

\* the admission gate, then update_phase(EXECUTE) and the call of handler.handle
Admit(r) ==
    /\ pc[r] = "gate"
    /\ gateFull' = [gateFull EXCEPT ![r] =
                      NeedsAdmission(req[r]) /\ Cardinality(Executing) = MaxConcurrentQueries]
    /\ IF NeedsAdmission(req[r]) /\ ~TryAcquire(permits)
       THEN /\ Raise(r, "AdmissionError", "ADMISSION")
            /\ UNCHANGED <<permits, acq, phases, handlerCalls>>
       ELSE /\ IF NeedsAdmission(req[r])
               THEN /\ permits' = permits - 1
                    /\ acq' = [acq EXCEPT ![r] = @ + 1]
               ELSE UNCHANGED <<permits, acq>>
            /\ Enter(r, "EXECUTE")
            /\ handlerCalls' = [handlerCalls EXCEPT ![r] = @ + 1]
            /\ Goto(r, "execute")
    /\ UNCHANGED <<lastCleanup, req, resp, hresult, rel, rlVars>>
    /\ UNCHANGED LifeFrame

\* a finally clause that releases whether or not a slot was taken
ReleaseAlways(rq) == TRUE

\* `if needs_admission` of the finally clause
ReleaseNeeded(rq) == NeedsAdmission(rq)

\* the finally clause around handler.handle: AdmissionGate.release
\* (a BoundedSemaphore raises ValueError when released above its bound)
Release(r, onward) ==
    IF ReleaseNeeded(req[r])
    THEN /\ rel' = [rel EXCEPT ![r] = @ + 1]
         /\ IF permits < MaxConcurrentQueries
            THEN /\ permits' = permits + 1
                 /\ onward
            ELSE /\ permits' = permits
                 /\ Raise(r, "ValueError", "EXECUTE")
    ELSE /\ UNCHANGED <<rel, permits>>
         /\ onward

\* handler.handle returns a QueryResult or an OperationResponse
HandlerReturn(r, res) ==
    /\ pc[r] = "execute"
    /\ hresult' = [hresult EXCEPT ![r] = res]
    /\ Release(r, Goto(r, "shape"))
    /\ UNCHANGED <<lastCleanup, req, phases, resp, handlerCalls, acq, gateFull, rlVars>>
    /\ UNCHANGED LifeFrame

\* handler.handle raises
HandlerRaise(r, e) ==
    /\ pc[r] = "execute"
    /\ Release(r, Raise(r, e, "EXECUTE"))
    /\ UNCHANGED <<lastCleanup, req, phases, resp, hresult, handlerCalls, acq, gateFull,
                   rlVars>>
    /\ UNCHANGED LifeFrame

\* SHAPE: _shape_response; a handler-built envelope is passed on with its errors
Shape(r) ==
    /\ pc[r] = "shape"
    /\ Enter(r, "SHAPE")
    /\ \/ /\ resp' = [resp EXCEPT ![r] = hresult[r]]
          /\ Goto(r, "observe")
       \/ /\ \E e \in ShapeExceptions : Raise(r, e, "SHAPE")
          /\ UNCHANGED resp
    /\ UNCHANGED <<permits, lastCleanup, req, hresult, handlerCalls, acq, rel, gateFull,
                   rlVars>>
    /\ UNCHANGED LifeFrame

\* OBSERVE on the success path, `return response`, and the finally clause
Observe(r) ==
    /\ pc[r] = "observe"
    /\ Enter(r, "OBSERVE")
    /\ ObserveEffect(sessions)
    /\ procOutcome' = [procOutcome EXCEPT ![r] = "returned"]
    /\ pc' = [pc EXCEPT ![r] = "done"]
    /\ hresult' = [hresult EXCEPT ![r] = NoResponse]
    /\ UNCHANGED <<permits, req, resp, exc, failedAt, handlerCalls, acq, rel, gateFull,
                   clock, chkPc, chkSid, chkNow, chkResult, admitted, clnPc, clnNow>>
    /\ UNCHANGED LifeFrame

\* except Exception: _error_response, OBSERVE, `return response`, finally
Except(r) ==
    /\ pc[r] = "except"
    /\ resp' = [resp EXCEPT ![r] = ErrorResponse(exc[r])]
    /\ phases' = [phases EXCEPT ![r] = @ \o ExceptPhases]
    /\ ObserveEffect(sessions)
    /\ procOutcome' = [procOutcome EXCEPT ![r] = "returned"]
    /\ pc' = [pc EXCEPT ![r] = "done"]
    /\ exc' = [exc EXCEPT ![r] = None]
    /\ hresult' = [hresult EXCEPT ![r] = NoResponse]
    /\ UNCHANGED <<permits, req, failedAt, handlerCalls, acq, rel, gateFull, clock,
                   chkPc, chkSid, chkNow, chkResult, admitted, clnPc, clnNow>>
    /\ UNCHANGED LifeFrame

NextLife ==
    \/ \E r \in Reqs, rq \in RequestKinds : Submit(r, rq)
    \/ \E r \in Reqs : Prologue(r)
    \/ \E r \in Reqs : ManagerExcept(r)
    \/ \E r \in Reqs : Validate(r)
    \/ \E r \in Reqs, sid \in SessionIds \cup {None} : Throttle(r, sid)
    \/ \E r \in Reqs : Authn(r)
    \/ \E r \in Reqs : Route(r)
    \/ \E r \in Reqs : Warmup(r)
    \/ \E r \in Reqs : Resolve(r)
    \/ \E r \in Reqs : Admit(r)
    \/ \E r \in Reqs, res \in HandlerResults : HandlerReturn(r, res)
    \/ \E r \in Reqs, e \in HandlerExceptions : HandlerRaise(r, e)
    \/ \E r \in Reqs : Shape(r)
    \/ \E r \in Reqs : Observe(r)
    \/ \E r \in Reqs : Except(r)


\* ------------------------------------------------------------------------
\* ConnectionPool.get_connection (infrastructure/connection.py): the leases
\* of one worker task, nested as `with` blocks nest
\* ------------------------------------------------------------------------

EmptyToken == ""
OboTokens == {EmptyToken, "A", "B"}
LeaseTokens == {None} \cup OboTokens

\* _create_connection: `if token:` selects the OBO token, otherwise the
\* service credential settings.databricks_token
Credential(token) == IF token # None /\ token # EmptyToken THEN token ELSE "SP"

\* an SP lease that never finds the cached connection
ReusesSpNever(slot) == FALSE

\* line 69: existing_sp is not None
ReusesSp(slot) == slot # 0

\* an OBO lease that reuses the cached connection whatever its token
ReusesOboAnyToken(slotConn, slotToken, token) == slotConn # 0

\* line 92: existing_obo is not None and existing_obo_token == token
ReusesObo(slotConn, slotToken, token) == slotConn # 0 /\ slotToken = token

\* line 98: a cached OBO connection of another token: one-shot connection
OneShot(slotConn, slotToken, token) == slotConn # 0 /\ slotToken # token

\* lines 82-83: except Exception around conn.close()
SwallowsCloseError == TRUE

\* a connection just opened by _create_connection(token) in the given branch;
\* reused and closeCalls record what happens to it
NewConn(token, branch) ==
    [token |-> token, cred |-> Credential(token), branch |-> branch, reused |-> FALSE,
     closeCalls |-> 0]

NoClose == [conn |-> 0, byException |-> FALSE, closeError |-> FALSE]

InitPool ==
    /\ spConn = 0
    /\ oboConn = 0
    /\ oboToken = None
    /\ conns = << >>
    /\ stack = << >>
    /\ closeRaised = FALSE
    /\ createFailed = FALSE
    /\ lastClose = NoClose

Push(token, id, branch) ==
    stack' = Append(stack, [token |-> token, conn |-> id, branch |-> branch])

\* entering `with pool.get_connection(token)`: the code up to the yield
GetConnectionEnter(token) ==
    /\ Len(stack) < MaxDepth
    /\ createFailed' = FALSE
    /\ LET id == Len(conns) + 1 IN
       IF token = None
       THEN IF ReusesSp(spConn)
            THEN /\ Push(token, spConn, "reuse")
                 /\ conns' = [conns EXCEPT ![spConn].reused = TRUE]
                 /\ UNCHANGED <<spConn, oboConn, oboToken>>
            ELSE /\ Len(conns) < MaxConns
                 /\ conns' = Append(conns, NewConn(token, "sp"))
                 /\ spConn' = id
                 /\ Push(token, id, "sp")
                 /\ UNCHANGED <<oboConn, oboToken>>
       ELSE IF ReusesObo(oboConn, oboToken, token)
            THEN /\ Push(token, oboConn, "reuse")
                 /\ conns' = [conns EXCEPT ![oboConn].reused = TRUE]
                 /\ UNCHANGED <<spConn, oboConn, oboToken>>
            ELSE IF OneShot(oboConn, oboToken, token)
            THEN /\ Len(conns) < MaxConns
                 /\ conns' = Append(conns, NewConn(token, "oneshot"))
                 /\ Push(token, id, "oneshot")
                 /\ UNCHANGED <<spConn, oboConn, oboToken>>
            ELSE /\ Len(conns) < MaxConns
                 /\ conns' = Append(conns, NewConn(token, "obo"))
                 /\ oboConn' = id
                 /\ oboToken' = token
                 /\ Push(token, id, "obo")
                 /\ UNCHANGED spConn
    /\ UNCHANGED <<closeRaised, lastClose>>

Lease(token) == GetConnectionEnter(token) /\ UNCHANGED PoolFrame

\* _create_connection raises (driver missing, settings missing, connect error):
\* conn stays None, nothing is cached, the error reaches the caller
GetConnectionCreateFails(token) ==
    /\ Len(stack) < MaxDepth
    /\ \/ token = None /\ ~ReusesSp(spConn)
       \/ token # None /\ ~ReusesObo(oboConn, oboToken, token)
    /\ createFailed' = TRUE
    /\ UNCHANGED <<spConn, oboConn, oboToken, conns, stack, closeRaised, lastClose>>

LeaseCreateFails(token) == GetConnectionCreateFails(token) /\ UNCHANGED PoolFrame

\* leaving the innermost `with` block, normally or by an exception of its body:
\* the code after the yield (the finally clauses); close() may raise
GetConnectionExit(byException, closeRaises) ==
    /\ stack # << >>
    /\ LET top == stack[Len(stack)] IN
       /\ stack' = SubSeq(stack, 1, Len(stack) - 1)
       /\ IF top.branch = "reuse"
          THEN UNCHANGED <<spConn, oboConn, oboToken, conns, closeRaised, lastClose>>
          ELSE /\ conns' = [conns EXCEPT ![top.conn].closeCalls = @ + 1]
               /\ lastClose' = [conn |-> top.conn, byException |-> byException,
                                closeError |-> closeRaises]
               /\ closeRaised' = (closeRaised \/ (closeRaises /\ ~SwallowsCloseError))
               /\ spConn' = IF top.branch = "sp" THEN 0 ELSE spConn
               /\ oboConn' = IF top.branch = "obo" THEN 0 ELSE oboConn
               /\ oboToken' = IF top.branch = "obo" THEN None ELSE oboToken
    /\ createFailed' = FALSE

ExitLease(byException, closeRaises) ==
    GetConnectionExit(byException, closeRaises) /\ UNCHANGED PoolFrame

NextPool ==
    \/ \E token \in LeaseTokens : Lease(token)
    \/ \E token \in LeaseTokens : LeaseCreateFails(token)
    \/ \E byException \in BOOLEAN, closeRaises \in BOOLEAN :
          ExitLease(byException, closeRaises)

\* ------------------------------------------------------------------------
\* TransactionHandler (handlers/transaction/multi_op.py) and
\* transaction_context (infrastructure/connection.py)
\* ------------------------------------------------------------------------
\* What can go wrong with one statement at the driver: nothing, the SQL
\* builder raises, the driver raises, the per-statement deadline elapses.
Faults == {"none", "build", "driver", "timeout"}

\* The sub-operations a request may carry: operation, whether payload and
\* where are non-empty dicts, and the fault its statement meets.
SubOps ==
    {o \in [operation : {"INSERT", "DELETE", "READ", "TRANSACTION"},
            payload : BOOLEAN, where : BOOLEAN, fault : Faults] :
        /\ o.operation = "INSERT" => ~o.where /\ (o.fault # "none" => o.payload)
        /\ o.operation = "DELETE" => ~o.payload /\ o.fault = "none"
        /\ o.operation \in {"READ", "TRANSACTION"}
              => o.payload /\ ~o.where /\ o.fault = "none"}

RECURSIVE SeqsUpTo(_, _)
SeqsUpTo(S, n) ==
    IF n = 0 THEN {<< >>}
    ELSE LET shorter == SeqsUpTo(S, n - 1) IN
         shorter \cup {Append(q, x) : q \in {r \in shorter : Len(r) = n - 1}, x \in S}

TxnTokens == {None, "A"}

\* validate_mutation_safety: INSERT needs a payload, UPDATE and MERGE a
\* payload and a where clause, DELETE a where clause, anything else passes
MutationSafe(o) ==
    CASE o.operation = "INSERT" -> o.payload
      [] o.operation \in {"UPDATE", "MERGE"} -> o.payload /\ o.where
      [] o.operation = "DELETE" -> o.where
      [] OTHER -> TRUE

\* the branches of the loop body that reach execute_non_query
IsWriteOrDelete(o) == o.operation \in {"INSERT", "UPDATE", "MERGE", "DELETE"}

\* the pre-loop checks of the sub-operations (lines 44-59)
PrecheckPasses(ops) == \A i \in 1..Len(ops) : ops[i].operation # "TRANSACTION"

\* transaction_context manages a transaction only on a connection that has
\* an autocommit attribute
ManagesTransaction(has) == has

\* statements run inside a database transaction while autocommit is off
InTransaction == hasAutocommit /\ ~autocommit

InitTxn ==
    /\ txPc = "idle"
    /\ txOps = << >>
    /\ txToken = None
    /\ txIdx = 0
    /\ txErr = None
    /\ txFailedAt = 0
    /\ txResp = "none"
    /\ totalAffected = 0
    /\ hasAutocommit = TRUE
    /\ autocommit = TRUE
    /\ originalAutocommit = TRUE
    /\ dbCommitted = {}
    /\ dbPending = {}
    /\ txLog = << >>

\* a TRANSACTION request reaches handle(); the database state at this moment
\* is the pre-request state, against which dbCommitted counts effects
TxnSubmit(ops, token) ==
    /\ txPc = "idle"
    /\ stack = << >>
    /\ txPc' = "precheck"
    /\ txOps' = ops
    /\ txToken' = token
    /\ txIdx' = 0
    /\ txErr' = None
    /\ txFailedAt' = 0
    /\ txResp' = "none"
    /\ totalAffected' = 0
    /\ dbCommitted' = {}
    /\ dbPending' = {}
    /\ txLog' = << >>
    /\ UNCHANGED <<hasAutocommit, autocommit, originalAutocommit>>
    /\ UNCHANGED poolVars
    /\ UNCHANGED TxnFrame

\* lines 29-61: empty request, nested transaction
TxnPrecheck ==
    /\ txPc = "precheck"
    /\ IF txOps = << >>
       THEN txPc' = "done" /\ txResp' = "success" /\ UNCHANGED txErr
       ELSE IF ~PrecheckPasses(txOps)
       THEN txPc' = "done" /\ txResp' = "raised" /\ txErr' = "ValidationError"
       ELSE txPc' = "lease" /\ UNCHANGED <<txResp, txErr>>
    /\ UNCHANGED <<txOps, txToken, txIdx, txFailedAt, totalAffected, txLog, hasAutocommit,
                   autocommit, originalAutocommit, dbCommitted, dbPending>>
    /\ UNCHANGED poolVars
    /\ UNCHANGED TxnFrame

\* line 65 and lines 186-197: the connection is leased and transaction_context
\* entered; the connection opened may or may not have an autocommit attribute
TxnEnter(has) ==
    /\ txPc = "lease"
    /\ GetConnectionEnter(txToken)
    /\ hasAutocommit' = has
    /\ IF ManagesTransaction(has)
       THEN originalAutocommit' = TRUE /\ autocommit' = FALSE
       ELSE UNCHANGED <<originalAutocommit, autocommit>>
    /\ txIdx' = 1
    /\ txPc' = "loop"
    /\ UNCHANGED <<txOps, txToken, txErr, txFailedAt, txResp, totalAffected, txLog,
                   dbCommitted, dbPending>>
    /\ UNCHANGED TxnFrame

\* line 65 raising: no connection, the handler's except answers
TxnEnterFails ==
    /\ txPc = "lease"
    /\ GetConnectionCreateFails(txToken)
    /\ txErr' = "ConnectionError"
    /\ txResp' = "failure"
    /\ txPc' = "done"
    /\ UNCHANGED <<txOps, txToken, txIdx, txFailedAt, totalAffected, txLog, hasAutocommit,
                   autocommit, originalAutocommit, dbCommitted, dbPending>>
    /\ UNCHANGED TxnFrame

\* the statement of sub-operation k takes effect at the database
Apply(k) ==
    IF InTransaction
    THEN dbPending' = dbPending \cup {k} /\ UNCHANGED dbCommitted
    ELSE dbCommitted' = dbCommitted \cup {k} /\ UNCHANGED dbPending

\* sub-operation k raises e
TxnRaise(k, e) ==
    /\ txErr' = e
    /\ txFailedAt' = k
    /\ txPc' = "unwind"
    /\ UNCHANGED <<txIdx, totalAffected>>

\* cursor.rowcount as execute_non_query returns it: -1 from a driver that
\* does not report counts, 0, or a positive count
RowCounts == {0 - 1, 0, 2}

\* a total that keeps only the count of the last statement
AccumulateLast(total, affected) == affected

\* line 80 / 85: total_affected += affected
Accumulate(total, affected) == total + affected

\* execute_non_query(conn, sql, params) is called for sub-operation k on the
\* connection bound by `with ... as conn`
Execute(k, completed, affected) ==
    txLog' = Append(txLog, [idx |-> k, conn |-> stack[Len(stack)].conn,
                            completed |-> completed, rc |-> affected])

\* lines 67-88: one turn of the loop.  On a timeout the statement may or may
\* not have taken effect before the cancellation (landed).
TxnOp(landed, affected) ==
    /\ txPc = "loop"
    /\ txIdx <= Len(txOps)
    /\ LET o == txOps[txIdx] IN
       IF ~MutationSafe(o)
       THEN /\ TxnRaise(txIdx, "ValidationError")
            /\ UNCHANGED <<dbCommitted, dbPending, txLog>>
       ELSE IF ~IsWriteOrDelete(o)
       THEN /\ TxnRaise(txIdx, "ValueError")
            /\ UNCHANGED <<dbCommitted, dbPending, txLog>>
       ELSE IF o.fault = "build"
       THEN /\ TxnRaise(txIdx, "ValueError")
            /\ UNCHANGED <<dbCommitted, dbPending, txLog>>
       ELSE IF o.fault = "driver"
       THEN /\ TxnRaise(txIdx, "DriverError")
            /\ Execute(txIdx, FALSE, 0)
            /\ UNCHANGED <<dbCommitted, dbPending>>
       ELSE IF o.fault = "timeout"
       THEN /\ TxnRaise(txIdx, "TimeoutError")
            /\ Execute(txIdx, FALSE, 0)
            /\ IF landed THEN Apply(txIdx) ELSE UNCHANGED <<dbCommitted, dbPending>>
       ELSE /\ ~landed
            /\ Apply(txIdx)
            /\ Execute(txIdx, TRUE, affected)
            /\ totalAffected' = Accumulate(totalAffected, affected)
            /\ txIdx' = txIdx + 1
            /\ UNCHANGED <<txPc, txErr, txFailedAt>>
    /\ UNCHANGED <<txOps, txToken, txResp, hasAutocommit, autocommit, originalAutocommit>>
    /\ UNCHANGED poolVars
    /\ UNCHANGED TxnFrame

\* lines 199-208 after the loop ended: commit, which may raise and is then
\* followed by rollback; autocommit restored
TxnCommit(commitRaises) ==
    /\ txPc = "loop"
    /\ txIdx > Len(txOps)
    /\ IF ManagesTransaction(hasAutocommit)
       THEN /\ IF commitRaises
               THEN /\ dbPending' = {}
                    /\ txErr' = "DriverError"
                    /\ txFailedAt' = txIdx
                    /\ UNCHANGED dbCommitted
               ELSE /\ dbCommitted' = dbCommitted \cup dbPending
                    /\ dbPending' = {}
                    /\ UNCHANGED <<txErr, txFailedAt>>
            /\ autocommit' = originalAutocommit
       ELSE /\ ~commitRaises
            /\ UNCHANGED <<dbCommitted, dbPending, txErr, txFailedAt, autocommit>>
    /\ txPc' = "exit"
    /\ UNCHANGED <<txOps, txToken, txIdx, txResp, totalAffected, txLog, hasAutocommit,
                   originalAutocommit>>
    /\ UNCHANGED poolVars
    /\ UNCHANGED TxnFrame

\* lines 193-196 and 202-206 with an exception thrown in at the yield:
\* rollback and restore on a managed connection, nothing on the other
TxnUnwind ==
    /\ txPc = "unwind"
    /\ IF ManagesTransaction(hasAutocommit)
       THEN dbPending' = {} /\ autocommit' = originalAutocommit
       ELSE UNCHANGED <<dbPending, autocommit>>
    /\ txPc' = "exit"
    /\ UNCHANGED <<txOps, txToken, txIdx, txErr, txFailedAt, txResp, totalAffected, txLog,
                   hasAutocommit, originalAutocommit, dbCommitted>>
    /\ UNCHANGED poolVars
    /\ UNCHANGED TxnFrame

\* the lease ends (the connection is closed) and handle() returns: lines
\* 90-96 without exception, lines 98-99 (_handle_error) with one
TxnExit(closeRaises) ==
    /\ txPc = "exit"
    /\ GetConnectionExit(txErr # None, closeRaises)
    /\ txResp' = IF txErr = None THEN "success" ELSE "failure"
    /\ txPc' = "done"
    /\ UNCHANGED <<txOps, txToken, txIdx, txErr, txFailedAt, totalAffected, txLog,
                   hasAutocommit, autocommit, originalAutocommit, dbCommitted, dbPending>>
    /\ UNCHANGED TxnFrame

NextTxn ==
    \/ \E ops \in SeqsUpTo(SubOps, MaxOps), token \in TxnTokens : TxnSubmit(ops, token)
    \/ TxnPrecheck
    \/ \E has \in BOOLEAN : TxnEnter(has)
    \/ TxnEnterFails
    \/ \E landed \in BOOLEAN, affected \in RowCounts : TxnOp(landed, affected)
    \/ \E commitRaises \in BOOLEAN : TxnCommit(commitRaises)
    \/ TxnUnwind
    \/ \E closeRaises \in BOOLEAN : TxnExit(closeRaises)

\* ------------------------------------------------------------------------
\* WarehouseWarmupGate.maybe_warm (infrastructure/warmup.py)
\* ------------------------------------------------------------------------
\* a stamp that is None
NoStamp == 0 - 1

\* lines 50 and 60: the last success is younger than the TTL
RecentSuccess(now) ==
    wLastSuccess # NoStamp /\ (now - wLastSuccess) < WarmupTtlSeconds

\* lines 54-55 and 63-64: nothing has ever succeeded and the last attempt is
\* younger than the backoff
RecentFailure(now) ==
    /\ wLastSuccess = NoStamp
    /\ wLastAttempt # NoStamp
    /\ (now - wLastAttempt) < WarmupFailureBackoffSeconds

\* a locked section that does not look at the stamps again
SkipsUnderLockNever(now) == FALSE

\* lines 60-65: the checks repeated under the lock
SkipsUnderLock(now) == RecentSuccess(now) \/ RecentFailure(now)

\* a lock that is granted while another caller holds it
LockFreeAlways(holder) == TRUE

\* `with self._lock`: threading.Lock is granted only when nobody holds it
LockFree(holder) == holder = 0

InitWarm ==
    /\ wLastSuccess = NoStamp
    /\ wLastAttempt = NoStamp
    /\ wLock = 0
    /\ wEnvToken = "unread"
    /\ wPc = [c \in Callers |-> "idle"]
    /\ wNow = [c \in Callers |-> 0]
    /\ wResult = [c \in Callers |-> "-"]
    /\ wFailedAt = NoStamp
    /\ wWaitedSuccess = [c \in Callers |-> NoStamp]

\* time.monotonic() advances
WarmTick ==
    /\ clock < MaxTime
    /\ clock' = clock + 1
    /\ UNCHANGED <<warmVars, poolVars>>
    /\ UNCHANGED WarmFrame

\* maybe_warm is called, line 47: now = time.monotonic()
WarmCall(c) ==
    /\ wPc[c] \in {"idle", "done"}
    /\ wPc' = [wPc EXCEPT ![c] = "fast"]
    /\ wNow' = [wNow EXCEPT ![c] = clock]
    /\ wResult' = [wResult EXCEPT ![c] = "-"]
    /\ wWaitedSuccess' = [wWaitedSuccess EXCEPT ![c] = NoStamp]
    /\ UNCHANGED <<wLastSuccess, wLastAttempt, wLock, wEnvToken, wFailedAt>>
    /\ UNCHANGED <<clock, poolVars>>
    /\ UNCHANGED WarmFrame

\* lines 49-56: the fast path, without the lock
WarmFast(c) ==
    /\ wPc[c] = "fast"
    /\ IF RecentSuccess(wNow[c]) \/ RecentFailure(wNow[c])
       THEN /\ wPc' = [wPc EXCEPT ![c] = "done"]
            /\ wResult' = [wResult EXCEPT ![c] = "False"]
       ELSE /\ wPc' = [wPc EXCEPT ![c] = "wait"]
            /\ UNCHANGED wResult
    /\ UNCHANGED <<wLastSuccess, wLastAttempt, wLock, wEnvToken, wNow, wFailedAt,
                   wWaitedSuccess>>
    /\ UNCHANGED <<clock, poolVars>>
    /\ UNCHANGED WarmFrame

\* lines 58-59: the lock is taken and the clock read again
WarmAcquire(c) ==
    /\ wPc[c] = "wait"
    /\ LockFree(wLock)
    /\ wLock' = c
    /\ wNow' = [wNow EXCEPT ![c] = clock]
    /\ wPc' = [wPc EXCEPT ![c] = "locked"]
    /\ UNCHANGED <<wLastSuccess, wLastAttempt, wEnvToken, wResult, wFailedAt,
                   wWaitedSuccess>>
    /\ UNCHANGED <<clock, poolVars>>
    /\ UNCHANGED WarmFrame

\* lines 60-65: skipped under the lock
WarmLockedSkip(c) ==
    /\ wPc[c] = "locked"
    /\ SkipsUnderLock(wNow[c])
    /\ wLock' = 0
    /\ wPc' = [wPc EXCEPT ![c] = "done"]
    /\ wResult' = [wResult EXCEPT ![c] = "False"]
    /\ UNCHANGED <<wLastSuccess, wLastAttempt, wEnvToken, wNow, wFailedAt, wWaitedSuccess>>
    /\ UNCHANGED <<clock, poolVars>>
    /\ UNCHANGED WarmFrame

\* lines 67-81: the attempt is stamped; without DATABRICKS_TOKEN the call
\* returns False, otherwise the SP lease is taken and the statement starts,
\* or the lease fails and the except clause returns True
WarmAttempt(c, env, leaseFails) ==
    /\ wPc[c] = "locked"
    /\ ~SkipsUnderLock(wNow[c])
    /\ wEnvToken \in {"unread", env}
    /\ wEnvToken' = env
    /\ wLastAttempt' = wNow[c]
    /\ IF env = "unset"
       THEN /\ ~leaseFails
            /\ wLock' = 0
            /\ wPc' = [wPc EXCEPT ![c] = "done"]
            /\ wResult' = [wResult EXCEPT ![c] = "False"]
            /\ UNCHANGED <<wFailedAt, poolVars>>
       ELSE IF leaseFails
       THEN /\ GetConnectionCreateFails(None)
            /\ wLock' = 0
            /\ wPc' = [wPc EXCEPT ![c] = "done"]
            /\ wResult' = [wResult EXCEPT ![c] = "True"]
            /\ wFailedAt' = wNow[c]
       ELSE /\ GetConnectionEnter(None)
            /\ wPc' = [wPc EXCEPT ![c] = "exec"]
            /\ UNCHANGED <<wLock, wResult, wFailedAt>>
    /\ UNCHANGED <<wLastSuccess, wNow, wWaitedSuccess>>
    /\ UNCHANGED clock
    /\ UNCHANGED WarmFrame

\* lines 82-96 and 98-106: the statement ends; on success the success stamp is
\* the clock read at line 90; the lease ends (an error of close() stays inside
\* get_connection) and the lock is released
WarmFinish(c, ok) ==
    /\ wPc[c] = "exec"
    /\ GetConnectionExit(~ok, FALSE)
    /\ IF ok
       THEN /\ wLastSuccess' = clock
            /\ wWaitedSuccess' = [d \in Callers |->
                                    IF wPc[d] = "wait" THEN clock ELSE wWaitedSuccess[d]]
            /\ UNCHANGED wFailedAt
       ELSE /\ wFailedAt' = wLastAttempt
            /\ UNCHANGED <<wLastSuccess, wWaitedSuccess>>
    /\ wLock' = 0
    /\ wPc' = [wPc EXCEPT ![c] = "done"]
    /\ wResult' = [wResult EXCEPT ![c] = "True"]
    /\ UNCHANGED <<wLastAttempt, wEnvToken, wNow>>
    /\ UNCHANGED clock
    /\ UNCHANGED WarmFrame

NextWarm ==
    \/ WarmTick
    \/ \E c \in Callers : WarmCall(c)
    \/ \E c \in Callers : WarmFast(c)
    \/ \E c \in Callers : WarmAcquire(c)
    \/ \E c \in Callers : WarmLockedSkip(c)
    \/ \E c \in Callers, env \in {"set", "unset"}, leaseFails \in BOOLEAN :
          WarmAttempt(c, env, leaseFails)
    \/ \E c \in Callers, ok \in BOOLEAN : WarmFinish(c, ok)

\* ------------------------------------------------------------------------
\* SchemaProvider (metadata/schema.py) and SchemaCache (metadata/cache.py)
\* for one table key T
\* ------------------------------------------------------------------------
\* The two SchemaProvider instances of a process: the one RequestLifecycle
\* builds for RESOLVE and the module-level one of the SCHEMA handlers.  Each
\* has its own SchemaCache memory and its own _inflight map; both use the
\* directory cache/schema.
Providers == {"resolve", "handler"}

NoSchema == [seq |-> 0, fetchedAt |-> 0]
NoEntry == [seq |-> 0, fetchedAt |-> 0, cachedAt |-> 0]
NoResult == [tier |-> "-", prov |-> "-", seq |-> 0, fetchedAt |-> 0, at |-> 0]

\* an entry that never expires
IsExpiredNever(cachedAt, now) == FALSE

\* SchemaCacheEntry.is_expired: age_seconds > ttl_seconds
IsExpired(cachedAt, now) == (now - cachedAt) > SchemaTtlSeconds

\* SchemaCache.get line 53: age <= self._ttl
FileFresh(schema, now) == (now - schema.fetchedAt) <= SchemaTtlSeconds

\* lock objects: identified by small numbers, a number being reused once no
\* map and no thread refers to the lock any more
LockIds == 1..(NumCallers + 2)
LocksInUse == Range(sInflight) \cup Range(sLock)
NewLock == CHOOSE l \in LockIds : l \notin LocksInUse

\* positions at which a thread holds the lock it obtained
HoldingPcs == {"recheck", "refile", "repromote", "fetching", "built", "cached"}
LockHeld(l) == \E t \in Callers : sLock[t] = l /\ sPc[t] \in HoldingPcs

\* the newest fetch held by any tier of any instance or invalidated before
NewestCached ==
    LET seqs == {sMemory[p].seq : p \in Providers} \cup {sFile.seq, sInvalidated}
    IN CHOOSE m \in seqs : \A x \in seqs : x <= m

InitSchema ==
    /\ wall = 0
    /\ sMemory = [p \in Providers |-> NoEntry]
    /\ sFile = NoSchema
    /\ sInflight = [p \in Providers |-> 0]
    /\ sSeq = 0
    /\ sPc = [t \in Callers |-> "idle"]
    /\ sProv = [t \in Callers |-> "resolve"]
    /\ sLock = [t \in Callers |-> 0]
    /\ sLoaded = [t \in Callers |-> NoSchema]
    /\ sResult = [t \in Callers |-> NoResult]
    /\ sInvalidated = 0

\* datetime.now() advances
SchemaTick ==
    /\ wall < MaxTime
    /\ wall' = wall + 1
    /\ UNCHANGED <<sMemory, sFile, sInflight, sSeq, sPc, sProv, sLock, sLoaded, sResult,
                   sInvalidated>>
    /\ UNCHANGED SchemaFrame

\* get_table_schema returns: the thread is done, its result recorded
Return(t, tier, schema) ==
    /\ sPc' = [sPc EXCEPT ![t] = "done"]
    /\ sResult' = [sResult EXCEPT ![t] =
                     [tier |-> tier, prov |-> sProv[t], seq |-> schema.seq,
                      fetchedAt |-> schema.fetchedAt, at |-> wall]]

\* get_table_schema(T) is called on provider p
GetCall(t, p) ==
    /\ sPc[t] \in {"idle", "done"}
    /\ sPc' = [sPc EXCEPT ![t] = "check"]
    /\ sProv' = [sProv EXCEPT ![t] = p]
    /\ UNCHANGED <<wall, sMemory, sFile, sInflight, sSeq, sLock, sLoaded, sResult,
                   sInvalidated>>
    /\ UNCHANGED SchemaFrame

\* SchemaCache.get lines 43-47, the memory tier under the cache lock; called
\* at line 53 (position "check") and again under the single-flight lock at
\* line 61 (position "recheck")
CacheGetMemory(t) ==
    /\ sPc[t] \in {"check", "recheck"}
    /\ LET e == sMemory[sProv[t]] IN
       IF e # NoEntry /\ ~IsExpired(e.cachedAt, wall)
       THEN /\ Return(t, "memory", [seq |-> e.seq, fetchedAt |-> e.fetchedAt])
            /\ sLock' = [sLock EXCEPT ![t] = 0]
       ELSE /\ sPc' = [sPc EXCEPT ![t] = IF sPc[t] = "check" THEN "file" ELSE "refile"]
            /\ UNCHANGED <<sResult, sLock>>
    /\ UNCHANGED <<wall, sMemory, sFile, sInflight, sSeq, sProv, sLoaded, sInvalidated>>
    /\ UNCHANGED SchemaFrame

\* SchemaCache.get lines 50-53 and 62-65: the file is loaded and its age
\* tested; a miss leads to the single-flight lock, or under it to the fetch
CacheGetFile(t) ==
    /\ sPc[t] \in {"file", "refile"}
    /\ IF sFile # NoSchema /\ FileFresh(sFile, wall)
       THEN /\ sLoaded' = [sLoaded EXCEPT ![t] = sFile]
            /\ sPc' = [sPc EXCEPT ![t] = IF sPc[t] = "file" THEN "promote" ELSE "repromote"]
       ELSE /\ sPc' = [sPc EXCEPT ![t] = IF sPc[t] = "file" THEN "getlock" ELSE "fetching"]
            /\ UNCHANGED sLoaded
    /\ UNCHANGED <<wall, sMemory, sFile, sInflight, sSeq, sProv, sLock, sResult,
                   sInvalidated>>
    /\ UNCHANGED SchemaFrame

\* SchemaCache.get lines 54-61: the loaded schema is put into memory with
\* cached_at = fetched_at and returned
CacheGetPromote(t) ==
    /\ sPc[t] \in {"promote", "repromote"}
    /\ sMemory' = [sMemory EXCEPT ![sProv[t]] =
                     [seq |-> sLoaded[t].seq, fetchedAt |-> sLoaded[t].fetchedAt,
                      cachedAt |-> sLoaded[t].fetchedAt]]
    /\ Return(t, "file", sLoaded[t])
    /\ sLock' = [sLock EXCEPT ![t] = 0]
    /\ sLoaded' = [sLoaded EXCEPT ![t] = NoSchema]
    /\ UNCHANGED <<wall, sFile, sInflight, sSeq, sProv, sInvalidated>>
    /\ UNCHANGED SchemaFrame

\* _get_inflight_lock: the lock of T in the map, created when absent
GetInflightLock(t) ==
    /\ sPc[t] = "getlock"
    /\ LET p == sProv[t] IN
       IF sInflight[p] = 0
       THEN /\ sInflight' = [sInflight EXCEPT ![p] = NewLock]
            /\ sLock' = [sLock EXCEPT ![t] = NewLock]
       ELSE /\ sLock' = [sLock EXCEPT ![t] = sInflight[p]]
            /\ UNCHANGED sInflight
    /\ sPc' = [sPc EXCEPT ![t] = "acquire"]
    /\ UNCHANGED <<wall, sMemory, sFile, sSeq, sProv, sLoaded, sResult, sInvalidated>>
    /\ UNCHANGED SchemaFrame

\* `with lock`: granted when no thread holds that lock object
AcquireInflight(t) ==
    /\ sPc[t] = "acquire"
    /\ ~LockHeld(sLock[t])
    /\ sPc' = [sPc EXCEPT ![t] = "recheck"]
    /\ UNCHANGED <<wall, sMemory, sFile, sInflight, sSeq, sProv, sLock, sLoaded, sResult,
                   sInvalidated>>
    /\ UNCHANGED SchemaFrame

\* _fetch_schema lines 88-126: the two information_schema queries run on an
\* SP lease that is opened and closed here, and the TableSchema is built with
\* fetched_at = datetime.now(); or the fetch fails, MetadataAccessError
\* leaves get_table_schema and the lock is released
FetchSchema(t, ok) ==
    /\ sPc[t] = "fetching"
    /\ IF ok
       THEN /\ sSeq < MaxFetches
            /\ sSeq' = sSeq + 1
            /\ sLoaded' = [sLoaded EXCEPT ![t] = [seq |-> sSeq + 1, fetchedAt |-> wall]]
            /\ sPc' = [sPc EXCEPT ![t] = "built"]
            /\ UNCHANGED <<sResult, sLock>>
       ELSE /\ Return(t, "error", NoSchema)
            /\ sLock' = [sLock EXCEPT ![t] = 0]
            /\ UNCHANGED <<sSeq, sLoaded>>
    /\ UNCHANGED <<wall, sMemory, sFile, sInflight, sProv, sInvalidated>>
    /\ UNCHANGED SchemaFrame

\* SchemaCache.set lines 69-74: the memory tier, cached_at = datetime.now()
CacheSetMemory(t) ==
    /\ sPc[t] = "built"
    /\ sMemory' = [sMemory EXCEPT ![sProv[t]] =
                     [seq |-> sLoaded[t].seq, fetchedAt |-> sLoaded[t].fetchedAt,
                      cachedAt |-> wall]]
    /\ sPc' = [sPc EXCEPT ![t] = "cached"]
    /\ UNCHANGED <<wall, sFile, sInflight, sSeq, sProv, sLock, sLoaded, sResult,
                   sInvalidated>>
    /\ UNCHANGED SchemaFrame

\* SchemaCache.set line 75 (_save_to_file, whose failure is only logged), then
\* line 129 and the release of the lock
CacheSetFile(t, saved) ==
    /\ sPc[t] = "cached"
    /\ sFile' = IF saved THEN sLoaded[t] ELSE sFile
    /\ Return(t, "fetch", sLoaded[t])
    /\ sLock' = [sLock EXCEPT ![t] = 0]
    /\ sLoaded' = [sLoaded EXCEPT ![t] = NoSchema]
    /\ UNCHANGED <<wall, sMemory, sInflight, sSeq, sProv, sInvalidated>>
    /\ UNCHANGED SchemaFrame

\* invalidate_table_schema(T): only the INVALIDATE_TABLE_SCHEMA scenario
\* calls it, on the provider of the SCHEMA handlers
InvalidateCall(t) ==
    /\ sPc[t] \in {"idle", "done"}
    /\ sPc' = [sPc EXCEPT ![t] = "invmem"]
    /\ sProv' = [sProv EXCEPT ![t] = "handler"]
    /\ sResult' = [u \in Callers |-> NoResult]
    /\ sInvalidated' = NewestCached
    /\ UNCHANGED <<wall, sMemory, sFile, sInflight, sSeq, sLock, sLoaded>>
    /\ UNCHANGED SchemaFrame

\* SchemaCache.invalidate lines 80-81: the memory entry is dropped
InvalidateMemory(t) ==
    /\ sPc[t] = "invmem"
    /\ sMemory' = [sMemory EXCEPT ![sProv[t]] = NoEntry]
    /\ sPc' = [sPc EXCEPT ![t] = "invfile"]
    /\ UNCHANGED <<wall, sFile, sInflight, sSeq, sProv, sLock, sLoaded, sResult,
                   sInvalidated>>
    /\ UNCHANGED SchemaFrame

\* SchemaCache.invalidate lines 83-85: the file is unlinked
InvalidateFile(t) ==
    /\ sPc[t] = "invfile"
    /\ sFile' = NoSchema
    /\ sPc' = [sPc EXCEPT ![t] = "invlock"]
    /\ UNCHANGED <<wall, sMemory, sInflight, sSeq, sProv, sLock, sLoaded, sResult,
                   sInvalidated>>
    /\ UNCHANGED SchemaFrame

\* invalidate_table_schema lines 45-46: the lock of T is popped from the map,
\* held or not, and the call returns
InvalidateInflight(t) ==
    /\ sPc[t] = "invlock"
    /\ sInflight' = [sInflight EXCEPT ![sProv[t]] = 0]
    /\ sPc' = [sPc EXCEPT ![t] = "done"]
    /\ UNCHANGED <<wall, sMemory, sFile, sSeq, sProv, sLock, sLoaded, sResult, sInvalidated>>
    /\ UNCHANGED SchemaFrame

\* concurrent SCHEMA requests, the clock standing still
NextSchema ==
    \/ \E t \in Callers : GetCall(t, "handler")
    \/ \E t \in Callers : CacheGetMemory(t)
    \/ \E t \in Callers : CacheGetFile(t)
    \/ \E t \in Callers : CacheGetPromote(t)
    \/ \E t \in Callers : GetInflightLock(t)
    \/ \E t \in Callers : AcquireInflight(t)
    \/ \E t \in Callers, ok \in BOOLEAN : FetchSchema(t, ok)
    \/ \E t \in Callers : CacheSetMemory(t)
    \/ \E t \in Callers, saved \in BOOLEAN : CacheSetFile(t, saved)
    \/ \E t \in Callers : InvalidateCall(t)
    \/ \E t \in Callers : InvalidateMemory(t)
    \/ \E t \in Callers : InvalidateFile(t)
    \/ \E t \in Callers : InvalidateInflight(t)

\* one request after another, READ requests resolving and SCHEMA requests,
\* the clock advancing
NextSchemaTtl ==
    \/ SchemaTick
    \/ \E p \in Providers : GetCall(1, p)
    \/ CacheGetMemory(1)
    \/ CacheGetFile(1)
    \/ CacheGetPromote(1)
    \/ GetInflightLock(1)
    \/ AcquireInflight(1)
    \/ \E ok \in BOOLEAN : FetchSchema(1, ok)
    \/ CacheSetMemory(1)
    \/ \E saved \in BOOLEAN : CacheSetFile(1, saved)
    \/ InvalidateCall(1)
    \/ InvalidateMemory(1)
    \/ InvalidateFile(1)
    \/ InvalidateInflight(1)

\* ------------------------------------------------------------------------
\* The response envelope: OperationManager.execute, RequestLifecycle.process,
\* _shape_response, _error_response, BaseHandler._handle_error
\* ------------------------------------------------------------------------
\* `x or y` takes y for None and for the empty string
Truthy(x) == x \notin {None, ""}

CallerIds == {None, "", "c1"}

\* exc.user_message of the OperationError subclasses raised in the pipeline
UserMessage(e) ==
    CASE e = "ValidationError" -> "Invalid request"
      [] e = "ThrottleError" -> "Too many requests"
      [] e = "AdmissionError" -> "Server is busy"
      [] e = "TimeoutError" -> "Query timed out"
      [] e = "MetadataAccessError" -> "Schema unavailable"
      [] OTHER -> "Operation failed"

\* error_detail_from_exception: category, and the user message of an
\* OperationError or "System Error: <class name>"
ErrorDetail(e) ==
    [category |-> CategoryFromException(e),
     message |-> IF IsInstance(e, "OperationError") THEN UserMessage(e)
                 ELSE IF e = "TypeError" THEN "System Error: TypeError"
                 ELSE "System Error: Exception"]

\* unknown_error_detail(message)
UnknownErrorDetail(message) ==
    [category |-> "UNKNOWN", message |-> IF message # "" THEN message ELSE "Operation failed"]

NoEnvelope ==
    [present |-> FALSE, success |-> FALSE, data |-> None, affected_rows |-> 0,
     message |-> "", errors |-> << >>, correlation_id |-> None, schema |-> "()"]

\* _error_response and the except clause of OperationManager.execute
ErrorEnvelope(e, corr) ==
    [present |-> TRUE, success |-> FALSE, data |-> None, affected_rows |-> 0,
     message |-> ErrorDetail(e).message, errors |-> <<ErrorDetail(e)>>,
     correlation_id |-> corr, schema |-> "()"]

NoHandlerResult ==
    [kind |-> "-", success |-> FALSE, data |-> None, affected_rows |-> 0, message |-> "",
     errors |-> << >>, metaCorr |-> None]

\* BaseHandler._handle_error
HandleError(e, ctxCorr) ==
    [kind |-> "OperationResponse", success |-> FALSE, data |-> None, affected_rows |-> 0,
     message |-> ErrorDetail(e).message, errors |-> <<ErrorDetail(e)>>,
     metaCorr |-> IF Truthy(ctxCorr) THEN ctxCorr ELSE None]

\* what handler.handle returns: a QueryResult, an OperationResponse built by
\* a handler (success, the "affected 0 rows" failure, _handle_error), or a
\* value of another type; metaCorr is the "correlation_id" key of the metadata
\* returned, None when the key is absent; handlers are registered through
\* HandlerRegistry.register and the bundled ones pass ctx.correlation_id
HandlerReturns(ctxCorr) ==
    {[kind |-> "QueryResult", success |-> TRUE, data |-> "rows", affected_rows |-> 0,
      message |-> "", errors |-> << >>, metaCorr |-> m] : m \in {None, "h1"}}
    \cup {[kind |-> "OperationResponse", success |-> TRUE, data |-> None,
           affected_rows |-> 1, message |-> "Write operation successful",
           errors |-> << >>, metaCorr |-> m] : m \in {None, ctxCorr}}
    \cup {[kind |-> "OperationResponse", success |-> FALSE, data |-> None,
           affected_rows |-> 0, message |-> "affected 0 rows",
           errors |-> << >>, metaCorr |-> m] : m \in {None, ctxCorr}}
    \cup {HandleError(e, ctxCorr) : e \in {"TimeoutError", "TypeError"}}
    \cup {[NoHandlerResult EXCEPT !.kind = "invalid"]}

\* _shape_response
ShapeResponse(hr, ctxCorr, resolved) ==
    LET corr == IF hr.metaCorr # None THEN hr.metaCorr ELSE ctxCorr IN
    IF hr.kind = "QueryResult"
    THEN [present |-> TRUE, success |-> TRUE, data |-> hr.data,
          affected_rows |-> hr.affected_rows, message |-> hr.message, errors |-> << >>,
          correlation_id |-> corr, schema |-> IF resolved THEN "columns" ELSE "()"]
    ELSE IF hr.kind # "OperationResponse"
    THEN [present |-> TRUE, success |-> FALSE, data |-> None, affected_rows |-> 0,
          message |-> "System Error: Invalid handler response", errors |-> << >>,
          correlation_id |-> ctxCorr, schema |-> "()"]
    ELSE [present |-> TRUE, success |-> hr.success, data |-> hr.data,
          affected_rows |-> hr.affected_rows, message |-> hr.message,
          errors |-> IF ~hr.success /\ hr.errors = << >>
                     THEN <<UnknownErrorDetail(hr.message)>> ELSE hr.errors,
          correlation_id |-> corr, schema |-> "()"]

\* _shape_response, lines 647-659: base_meta["schema_resolved"] is set from
\* the resolved schema before the kind of the handler's result is looked at
SchemaResolvedFlag(hr, resolved) == resolved

\* an except clause that catches nothing
ResolveCatchesNothing(e) == FALSE

\* _maybe_resolve_schema: except Exception
ResolveCatches(e) == IsInstance(e, "Exception")

\* _maybe_resolve_schema resolves for READ, mode not NAMED, columns None or "*"
NeedsResolution(rq) == rq.operation = "READ" /\ rq.mode # "NAMED" /\ rq.wildcard

EnvRequests ==
    {[operation |-> "READ", mode |-> "SINGLE", wildcard |-> TRUE],
     [operation |-> "READ", mode |-> "NAMED", wildcard |-> TRUE],
     [operation |-> "INSERT", mode |-> "SINGLE", wildcard |-> FALSE],
     [operation |-> "HEARTBEAT", mode |-> "SINGLE", wildcard |-> FALSE]}

IdleCall ==
    [pc |-> "idle", req |-> [operation |-> "-", mode |-> "-", wildcard |-> FALSE],
     caller |-> None, ctx |-> None, warm |-> "-", successBefore |-> NoStamp,
     resolved |-> FALSE, resolveFailed |-> FALSE, handler |-> NoHandlerResult,
     invoked |-> FALSE, exc |-> None, failedAt |-> None, resp |-> NoEnvelope]

InitEnv == call = IdleCall

\* an exception leaves the try block of process
EnvRaise(e, where) == [call EXCEPT !.pc = "except", !.exc = e, !.failedAt = where]

\* OperationManager.execute builds the ExecutionContext (correlation_id or a
\* fresh uuid) and enters process
EnvExecute(rq, cid) ==
    /\ call.pc \in {"idle", "done"}
    /\ call' = [IdleCall EXCEPT !.pc = "gate", !.req = rq, !.caller = cid,
                                !.ctx = IF Truthy(cid) THEN cid ELSE "uuid-ctx"]
    /\ UNCHANGED <<clock, warmVars, poolVars>>
    /\ UNCHANGED EnvFrame

\* an exception before the try block of process reaches the except clause
\* of execute: correlation_id or new_correlation_id()
EnvExecuteRaises(rq, cid, e) ==
    /\ call.pc \in {"idle", "done"}
    /\ call' = [IdleCall EXCEPT !.pc = "done", !.req = rq, !.caller = cid,
                                !.exc = e, !.failedAt = "MANAGER",
                                !.resp = ErrorEnvelope(e, IF Truthy(cid) THEN cid
                                                          ELSE "uuid-mgr")]
    /\ UNCHANGED <<clock, warmVars, poolVars>>
    /\ UNCHANGED EnvFrame

\* VALIDATE, THROTTLE, AUTHN, ROUTE: all pass, or one of them raises
EnvGate(e) ==
    /\ call.pc = "gate"
    /\ call' = IF e = None THEN [call EXCEPT !.pc = "warm"] ELSE EnvRaise(e, "GATE")
    /\ UNCHANGED <<clock, warmVars, poolVars>>
    /\ UNCHANGED EnvFrame

\* _maybe_warm_warehouse returns without an attempt: HEARTBEAT, or maybe_warm
\* finds a recent success or a recent failure
EnvWarmSkip ==
    /\ call.pc = "warm"
    /\ call.req.operation = "HEARTBEAT" \/ SkipsUnderLock(clock)
    /\ call' = [call EXCEPT !.pc = "resolve",
                            !.warm = IF call.req.operation = "HEARTBEAT" THEN "-"
                                     ELSE "skipped"]
    /\ UNCHANGED <<clock, warmVars, poolVars>>
    /\ UNCHANGED EnvFrame

\* maybe_warm lines 67-81: the attempt stamp is written; without
\* DATABRICKS_TOKEN it returns, otherwise the SP lease is taken, or fails
EnvWarmAttempt(env, leaseFails) ==
    /\ call.pc = "warm"
    /\ call.req.operation # "HEARTBEAT"
    /\ ~SkipsUnderLock(clock)
    /\ wEnvToken \in {"unread", env}
    /\ wEnvToken' = env
    /\ wLastAttempt' = clock
    /\ IF env = "unset"
       THEN /\ ~leaseFails
            /\ call' = [call EXCEPT !.pc = "resolve", !.warm = "no token",
                                    !.successBefore = wLastSuccess]
            /\ UNCHANGED <<wFailedAt, poolVars>>
       ELSE IF leaseFails
       THEN /\ GetConnectionCreateFails(None)
            /\ call' = [call EXCEPT !.pc = "resolve", !.warm = "failed",
                                    !.successBefore = wLastSuccess]
            /\ wFailedAt' = clock
       ELSE /\ GetConnectionEnter(None)
            /\ call' = [call EXCEPT !.pc = "warming", !.successBefore = wLastSuccess]
            /\ UNCHANGED wFailedAt
    /\ UNCHANGED <<clock, wLastSuccess, wLock, wPc, wNow, wResult, wWaitedSuccess>>
    /\ UNCHANGED EnvFrame

\* maybe_warm lines 82-106: the statement succeeds and the success stamp is
\* written, or it raises and the except clause returns; the lease ends
EnvWarmFinish(ok) ==
    /\ call.pc = "warming"
    /\ GetConnectionExit(~ok, FALSE)
    /\ wLastSuccess' = IF ok THEN clock ELSE wLastSuccess
    /\ wFailedAt' = IF ok THEN wFailedAt ELSE wLastAttempt
    /\ call' = [call EXCEPT !.pc = "resolve", !.warm = IF ok THEN "ok" ELSE "failed"]
    /\ UNCHANGED <<clock, wLastAttempt, wLock, wEnvToken, wPc, wNow, wResult,
                   wWaitedSuccess>>
    /\ UNCHANGED EnvFrame

\* _maybe_resolve_schema: nothing to resolve, the resolver returns the
\* schema (e = None), or it raises e
EnvResolve(e) ==
    /\ call.pc = "resolve"
    /\ NeedsResolution(call.req) \/ e = None
    /\ call' = IF ~NeedsResolution(call.req) THEN [call EXCEPT !.pc = "admit"]
               ELSE IF e = None THEN [call EXCEPT !.pc = "admit", !.resolved = TRUE]
               ELSE IF ResolveCatches(e)
               THEN [call EXCEPT !.pc = "admit", !.resolveFailed = TRUE]
               ELSE [EnvRaise(e, "RESOLVE") EXCEPT !.resolveFailed = TRUE]
    /\ UNCHANGED <<clock, warmVars, poolVars>>
    /\ UNCHANGED EnvFrame

\* the admission gate: a slot is free, or AdmissionError
EnvAdmit(full) ==
    /\ call.pc = "admit"
    /\ full => NeedsAdmission(call.req)
    /\ call' = IF full THEN EnvRaise("AdmissionError", "ADMISSION")
               ELSE [call EXCEPT !.pc = "handle"]
    /\ UNCHANGED <<clock, warmVars, poolVars>>
    /\ UNCHANGED EnvFrame

\* handler.handle returns hr
EnvHandle(hr) ==
    /\ call.pc = "handle"
    /\ hr \in HandlerReturns(call.ctx)
    /\ call' = [call EXCEPT !.pc = "shape", !.invoked = TRUE, !.handler = hr]
    /\ UNCHANGED <<clock, warmVars, poolVars>>
    /\ UNCHANGED EnvFrame

\* handler.handle raises e
EnvHandleRaises(e) ==
    /\ call.pc = "handle"
    /\ call' = [EnvRaise(e, "EXECUTE") EXCEPT !.invoked = TRUE]
    /\ UNCHANGED <<clock, warmVars, poolVars>>
    /\ UNCHANGED EnvFrame

\* _shape_response builds the response, or the format conversion of a
\* QueryResult raises
EnvShape(raises) ==
    /\ call.pc = "shape"
    /\ raises => call.handler.kind = "QueryResult"
    /\ call' = IF raises THEN EnvRaise("TypeError", "SHAPE")
               ELSE [call EXCEPT !.pc = "observe",
                                 !.resp = ShapeResponse(call.handler, call.ctx,
                                                        call.resolved)]
    /\ UNCHANGED <<clock, warmVars, poolVars>>
    /\ UNCHANGED EnvFrame

\* _observe inside the try block: the response is returned, or _observe raises
EnvObserve(raises) ==
    /\ call.pc = "observe"
    /\ call' = IF raises THEN [EnvRaise("TypeError", "OBSERVE") EXCEPT !.resp = NoEnvelope]
               ELSE [call EXCEPT !.pc = "done"]
    /\ UNCHANGED <<clock, warmVars, poolVars>>
    /\ UNCHANGED EnvFrame

\* the except clause of process: _error_response, then _observe; when that
\* raises, the except clause of execute builds the response
EnvExcept(observeRaises) ==
    /\ call.pc = "except"
    /\ call' = [call EXCEPT !.pc = "done",
                  !.resp = IF observeRaises
                           THEN ErrorEnvelope("TypeError",
                                              IF Truthy(call.caller) THEN call.caller
                                              ELSE "uuid-mgr")
                           ELSE ErrorEnvelope(call.exc, call.ctx)]
    /\ UNCHANGED <<clock, warmVars, poolVars>>
    /\ UNCHANGED EnvFrame

NextEnvelope ==
    \/ \E rq \in EnvRequests, cid \in CallerIds : EnvExecute(rq, cid)
    \/ \E rq \in EnvRequests, cid \in CallerIds : EnvExecuteRaises(rq, cid, "TypeError")
    \/ \E e \in {None, "ValidationError", "ThrottleError"} : EnvGate(e)
    \/ EnvWarmSkip
    \/ \E env \in {"set", "unset"}, leaseFails \in BOOLEAN : EnvWarmAttempt(env, leaseFails)
    \/ \E ok \in BOOLEAN : EnvWarmFinish(ok)
    \/ \E e \in {None, "MetadataAccessError", "TypeError"} : EnvResolve(e)
    \/ \E full \in BOOLEAN : EnvAdmit(full)
    \/ \E hr \in UNION {HandlerReturns(c) : c \in {"c1", "uuid-ctx"}} : EnvHandle(hr)
    \/ \E e \in {"TimeoutError", "TypeError"} : EnvHandleRaises(e)
    \/ \E raises \in BOOLEAN : EnvShape(raises)
    \/ \E raises \in BOOLEAN : EnvObserve(raises)
    \/ \E observeRaises \in BOOLEAN : EnvExcept(observeRaises)

\* the requests of one UI session, one after another on one worker, while
\* the monotonic clock advances
NextBurst ==
    \/ Tick
    \/ \E rq \in RequestKinds : Submit(1, rq)
    \/ Prologue(1)
    \/ ManagerExcept(1)
    \/ Validate(1)
    \/ Throttle(1, "s1")
    \/ Authn(1)
    \/ Route(1)
    \/ Warmup(1)
    \/ Resolve(1)
    \/ Admit(1)
    \/ \E res \in HandlerResults : HandlerReturn(1, res)
    \/ \E e \in HandlerExceptions : HandlerRaise(1, e)
    \/ Shape(1)
    \/ Observe(1)
    \/ Except(1)

\* ------------------------------------------------------------------------
\* Driver calls in flight: RequestLifecycle.process lines 150-176 for
\* concurrent requests
\* ------------------------------------------------------------------------
DrvOperations == {"READ", "INSERT", "HEARTBEAT", "SCHEMA"}

\* positions at which a request has a statement running on the driver: the
\* warmup statement, the information_schema fetch of RESOLVE, the handler
DriverPcs == {"warming", "fetching", "execute"}

InFlight == {r \in Reqs : drv[r].pc \in DriverPcs}

InitDrv == drv = [r \in Reqs |-> [pc |-> "idle", op |-> "-"]]

\* a request has passed VALIDATE, THROTTLE, AUTHN and ROUTE
DrvSubmit(r, op) ==
    /\ drv[r].pc \in {"idle", "done"}
    /\ drv' = [drv EXCEPT ![r] = [pc |-> "warmup", op |-> op]]
    /\ UNCHANGED <<permits, lcRest, clock, wLastSuccess, wLastAttempt, wLock, wRest>>
    /\ UNCHANGED DrvFrame

\* WARMUP without a statement: HEARTBEAT, or maybe_warm skips
DrvWarmSkip(r) ==
    /\ drv[r].pc = "warmup"
    /\ drv[r].op = "HEARTBEAT" \/ SkipsUnderLock(clock)
    /\ drv' = [drv EXCEPT ![r].pc = "resolve"]
    /\ UNCHANGED <<permits, lcRest, clock, wLastSuccess, wLastAttempt, wLock, wRest>>
    /\ UNCHANGED DrvFrame

\* maybe_warm takes its mutex, stamps the attempt and runs the warmup
\* statement on an SP lease
DrvWarmStart(r) ==
    /\ drv[r].pc = "warmup"
    /\ drv[r].op # "HEARTBEAT"
    /\ ~SkipsUnderLock(clock)
    /\ LockFree(wLock)
    /\ wLock' = r
    /\ wLastAttempt' = clock
    /\ drv' = [drv EXCEPT ![r].pc = "warming"]
    /\ UNCHANGED <<permits, lcRest, clock, wLastSuccess, wRest>>
    /\ UNCHANGED DrvFrame

\* the warmup statement ends
DrvWarmEnd(r, ok) ==
    /\ drv[r].pc = "warming"
    /\ wLock' = 0
    /\ wLastSuccess' = IF ok THEN clock ELSE wLastSuccess
    /\ drv' = [drv EXCEPT ![r].pc = "resolve"]
    /\ UNCHANGED <<permits, lcRest, clock, wLastAttempt, wRest>>
    /\ UNCHANGED DrvFrame

\* RESOLVE: nothing to resolve or a cache hit (fetch = FALSE), or
\* _fetch_schema runs its information_schema queries on an SP lease
DrvResolve(r, fetch) ==
    /\ drv[r].pc = "resolve"
    /\ fetch => drv[r].op = "READ"
    /\ drv' = [drv EXCEPT ![r].pc = IF fetch THEN "fetching" ELSE "gate"]
    /\ UNCHANGED <<permits, lcRest, clock, wLastSuccess, wLastAttempt, wLock, wRest>>
    /\ UNCHANGED DrvFrame

\* the information_schema queries end
DrvFetchEnd(r) ==
    /\ drv[r].pc = "fetching"
    /\ drv' = [drv EXCEPT ![r].pc = "gate"]
    /\ UNCHANGED <<permits, lcRest, clock, wLastSuccess, wLastAttempt, wLock, wRest>>
    /\ UNCHANGED DrvFrame

\* the admission gate: HEARTBEAT and SCHEMA pass without a slot, the others
\* take one or are rejected; then handler.handle runs its statements
DrvAdmit(r) ==
    /\ drv[r].pc = "gate"
    /\ IF ~(drv[r].op \notin {"HEARTBEAT", "SCHEMA"})
       THEN /\ drv' = [drv EXCEPT ![r].pc = "execute"]
            /\ UNCHANGED permits
       ELSE IF TryAcquire(permits)
       THEN /\ permits' = permits - 1
            /\ drv' = [drv EXCEPT ![r].pc = "execute"]
       ELSE /\ drv' = [drv EXCEPT ![r].pc = "done"]
            /\ UNCHANGED permits
    /\ UNCHANGED <<lcRest, clock, wLastSuccess, wLastAttempt, wLock, wRest>>
    /\ UNCHANGED DrvFrame

\* handler.handle ends; the slot is released when one was taken
DrvHandlerEnd(r) ==
    /\ drv[r].pc = "execute"
    /\ permits' = IF drv[r].op \notin {"HEARTBEAT", "SCHEMA"} THEN permits + 1 ELSE permits
    /\ drv' = [drv EXCEPT ![r].pc = "done"]
    /\ UNCHANGED <<lcRest, clock, wLastSuccess, wLastAttempt, wLock, wRest>>
    /\ UNCHANGED DrvFrame

NextDrv ==
    \/ \E r \in Reqs, op \in DrvOperations : DrvSubmit(r, op)
    \/ \E r \in Reqs : DrvWarmSkip(r)
    \/ \E r \in Reqs : DrvWarmStart(r)
    \/ \E r \in Reqs, ok \in BOOLEAN : DrvWarmEnd(r, ok)
    \/ \E r \in Reqs, fetch \in BOOLEAN : DrvResolve(r, fetch)
    \/ \E r \in Reqs : DrvFetchEnd(r)
    \/ \E r \in Reqs : DrvAdmit(r)
    \/ \E r \in Reqs : DrvHandlerEnd(r)

\* ------------------------------------------------------------------------
\* Per-statement deadline: execute_query / execute_non_query, and the driver
\* calls of WARMUP, RESOLVE and EXECUTE of one request
\* ------------------------------------------------------------------------
\* what a statement that ends before the deadline gives: a result, the
\* connector's RequestError, or another exception
StatementOutcomes == {"result", "RequestError", "Exception"}

\* lines 268-276 / 432-439: the exception execute_query raises for an error
\* of the statement
RaisedFor(error) == IF error = "RequestError" THEN "TimeoutError" ELSE error

InitTmo ==
    tmo = [pc |-> "idle", op |-> "-", elapsed |-> 0, cancels |-> 0, overdue |-> {}, cancelErr |-> FALSE, slot |-> FALSE,
           success |-> "-", category |-> "-"]

TmoSubmit(op) ==
    /\ tmo.pc \in {"idle", "done"}
    /\ tmo' = [pc |-> "WARMUP", op |-> op, elapsed |-> 0, cancels |-> 0, overdue |-> {},
               cancelErr |-> FALSE, slot |-> FALSE, success |-> "-", category |-> "-"]
    /\ UNCHANGED TmoFrame

\* WARMUP: maybe_warm skips, or runs cursor.execute(warmup_sql) itself
TmoWarmup(runs) ==
    /\ tmo.pc = "WARMUP"
    /\ runs => tmo.op # "HEARTBEAT"
    /\ tmo' = [tmo EXCEPT !.pc = IF runs THEN "warming" ELSE "RESOLVE", !.elapsed = 0]
    /\ UNCHANGED TmoFrame

\* time passes while a statement runs; thread.join(timeout_seconds) returns
\* at the deadline, the warmup statement is waited for without a deadline
TmoTick ==
    /\ tmo.pc \in {"warming", "fetching", "executing"}
    /\ tmo.elapsed < QueryTimeoutSeconds + 1
    /\ tmo.pc = "warming" \/ tmo.elapsed < QueryTimeoutSeconds
    /\ tmo' = [tmo EXCEPT !.elapsed = @ + 1]
    /\ UNCHANGED TmoFrame

\* the warmup statement ends (or raises: swallowed by maybe_warm)
TmoWarmReturn ==
    /\ tmo.pc = "warming"
    /\ tmo' = [tmo EXCEPT !.pc = "RESOLVE",
                          !.overdue = IF tmo.elapsed >= QueryTimeoutSeconds
                                      THEN @ \cup {"WARMUP"} ELSE @]
    /\ UNCHANGED TmoFrame

\* RESOLVE: nothing to fetch, or _fetch_schema calls execute_query
TmoResolve(fetches) ==
    /\ tmo.pc = "RESOLVE"
    /\ fetches => tmo.op = "READ"
    /\ tmo' = [tmo EXCEPT !.pc = IF fetches THEN "fetching" ELSE "gate", !.elapsed = 0]
    /\ UNCHANGED TmoFrame

\* the admission gate, then the handler calls execute_query / execute_non_query
TmoAdmit ==
    /\ tmo.pc = "gate"
    /\ tmo' = [tmo EXCEPT !.pc = "executing", !.slot = tmo.op # "HEARTBEAT", !.elapsed = 0]
    /\ UNCHANGED TmoFrame

\* what follows an exception (or none) out of execute_query: RESOLVE
\* swallows it, the handler turns it into an error response and the slot
\* is released
AfterCall(t, raised) ==
    IF t.pc = "fetching"
    THEN [t EXCEPT !.pc = "gate"]
    ELSE [t EXCEPT !.pc = "done", !.slot = FALSE,
                   !.success = IF raised = "result" THEN "TRUE" ELSE "FALSE",
                   !.category = IF raised = "result" THEN "-"
                                ELSE CategoryFromException(raised)]

\* the statement ends before the deadline: thread.is_alive() is false
TmoReturn(outcome) ==
    /\ tmo.pc \in {"fetching", "executing"}
    /\ tmo.elapsed < QueryTimeoutSeconds
    /\ tmo' = AfterCall(tmo, RaisedFor(outcome))
    /\ UNCHANGED TmoFrame

\* the deadline elapses: cursor.cancel() (its error ignored), a bounded join,
\* TimeoutError
TmoExpire(cancelRaises) ==
    /\ tmo.pc \in {"fetching", "executing"}
    /\ tmo.elapsed = QueryTimeoutSeconds
    /\ tmo' = AfterCall([tmo EXCEPT !.cancels = @ + 1, !.cancelErr = cancelRaises,
                                    !.overdue = @ \cup {IF tmo.pc = "fetching" THEN "RESOLVE"
                                                        ELSE "EXECUTE"}],
                        "TimeoutError")
    /\ UNCHANGED TmoFrame

NextTmo ==
    \/ \E op \in {"READ", "INSERT", "HEARTBEAT"} : TmoSubmit(op)
    \/ \E runs \in BOOLEAN : TmoWarmup(runs)
    \/ TmoTick
    \/ TmoWarmReturn
    \/ \E fetches \in BOOLEAN : TmoResolve(fetches)
    \/ TmoAdmit
    \/ \E outcome \in StatementOutcomes : TmoReturn(outcome)
    \/ \E cancelRaises \in BOOLEAN : TmoExpire(cancelRaises)

\* ------------------------------------------------------------------------
\* RequestLifecycle._validate and _validate_transaction_request
\* ------------------------------------------------------------------------
\* payloads: None, a dict with len keys, a list of len dict records
Payload(kind, len) == [kind |-> kind, len |-> len]

\* where: None, a non-empty dict, a list of non-empty dicts as long as the
\* payload, a list of another length
Wheres == {"none", "dict", "list_same", "list_other"}

\* options: whether it is a dict, and its keys
Options(isDict, keys) == [dict |-> isDict, keys |-> keys]

\* the sub-requests a TRANSACTION may carry
SubRequest(op, mode, payload, where) ==
    [operation |-> op, mode |-> mode, payload |-> payload, where |-> where]

SubRequests ==
    {SubRequest("INSERT", "SINGLE", Payload("dict", 1), "none"),
     SubRequest("UPDATE", "SINGLE", Payload("dict", 1), "dict"),
     SubRequest("UPDATE", "SINGLE", Payload("dict", 1), "none"),
     SubRequest("DELETE", "SINGLE", Payload("dict", 0), "none"),
     SubRequest("TRANSACTION", "SINGLE", Payload("dict", 0), "none"),
     SubRequest("INSERT", "BATCH", Payload("dict", 1), "none"),
     SubRequest("INSERT", "SINGLE", Payload("list", 1), "none"),
     SubRequest("READ", "SINGLE", Payload("dict", 0), "dict")}

ValRequest(op, mode, payload, where, options, operations) ==
    [operation |-> op, mode |-> mode, payload |-> payload, where |-> where,
     options |-> options, operations |-> operations]

SingleRequests ==
    {ValRequest(op, "SINGLE", p, w, o, << >>) :
        op \in {"READ", "INSERT", "UPDATE", "DELETE", "HEARTBEAT"},
        p \in {Payload("dict", 0), Payload("dict", 1), Payload("list", 1)},
        w \in {"none", "dict"},
        o \in {Options(FALSE, {}), Options(TRUE, {}), Options(TRUE, {"limit"}),
               Options(TRUE, {"limit", "verbose"})}}

BatchRequests ==
    {ValRequest(op, "BATCH", p, w, o, << >>) :
        op \in {"READ", "INSERT", "UPDATE", "MERGE", "DELETE"},
        p \in {Payload("none", 0), Payload("dict", 1)}
              \cup {Payload("list", n) : n \in 0..(MaxBatchSize + 1)},
        w \in Wheres,
        o \in {Options(TRUE, {}), Options(TRUE, {"verbose"})}}

TransactionRequests ==
    {ValRequest("TRANSACTION", "SINGLE", Payload("dict", 0), "none", Options(TRUE, {}), ops) :
        ops \in SeqsUpTo(SubRequests, MaxTransactionStatements + 1)}

ValRequests == SingleRequests \cup BatchRequests \cup TransactionRequests

\* validate_mutation_safety(operation, payload, where) on a request record
SafeMutation(rq) ==
    MutationSafe([operation |-> rq.operation,
                  payload |-> rq.payload.kind = "dict" /\ rq.payload.len > 0,
                  where |-> rq.where = "dict"])

\* a bound on the operations that is never exceeded
TooManyStatementsNever(n) == FALSE

\* line 536: len(request.operations) > settings.max_transaction_statements
TooManyStatements(n) == n > MaxTransactionStatements

\* lines 545-579: the checks of one sub-request; "" when it passes
ValidateSub(sub) ==
    IF sub.operation = "TRANSACTION" THEN "Nested transactions are not supported"
    ELSE IF sub.mode # "SINGLE" THEN "Transaction sub-operations must use SINGLE mode"
    ELSE IF sub.payload.kind # "dict" THEN "Transaction sub-operations require dict payloads"
    ELSE IF sub.operation \notin {"INSERT", "UPDATE", "MERGE", "DELETE"}
    THEN "Unsupported operation in transaction"
    ELSE IF ~SafeMutation(sub) THEN "Missing values or identifier"
    ELSE ""

\* _validate_transaction_request: the user message of the ValidationError
\* raised, "" when the request passes
ValidateTransactionRequest(rq) ==
    IF rq.mode # "SINGLE" THEN "Transaction wrapper mode must be SINGLE"
    ELSE IF TooManyStatements(Len(rq.operations)) THEN "Transaction has too many operations"
    ELSE LET bad == {i \in 1..Len(rq.operations) : ValidateSub(rq.operations[i]) # ""} IN
         IF bad = {} THEN ""
         ELSE ValidateSub(rq.operations[CHOOSE i \in bad : \A j \in bad : i <= j])

\* a bound that rejects a payload of exactly max_batch_size records
ExceedsBatchSizeInclusive(n) == n >= MaxBatchSize

\* lines 405 and 422: len(request.payload) > settings.max_batch_size
ExceedsBatchSize(n) == n > MaxBatchSize

\* lines 393-466: BATCH mode
ValidateBatch(rq) ==
    IF rq.operation = "READ"
    THEN IF rq.payload.kind = "dict" THEN "Invalid payload"
         ELSE IF rq.payload.kind = "list" /\ ExceedsBatchSize(rq.payload.len)
         THEN "Batch size exceeds limit"
         ELSE ""
    ELSE IF rq.payload.kind # "list" THEN "Invalid payload"
    ELSE IF rq.payload.len = 0 THEN "Empty batch payload"
    ELSE IF ExceedsBatchSize(rq.payload.len) THEN "Batch size exceeds limit"
    ELSE IF rq.operation = "DELETE" /\ rq.where = "none"
    THEN "Batch DELETE requires WHERE conditions"
    ELSE IF rq.operation \in {"UPDATE", "MERGE"} /\ rq.where = "none"
    THEN "Batch UPDATE/MERGE requires WHERE conditions"
    ELSE IF rq.operation \in {"UPDATE", "MERGE"} /\ rq.where = "list_other"
    THEN "WHERE list length must match payload length"
    ELSE ""

\* _validate: the user message of the ValidationError raised, "" when the
\* request passes (table and column names are well formed)
ValidateRequest(rq) ==
    IF ~rq.options.dict THEN "Invalid options"
    ELSE IF rq.operation = "HEARTBEAT" THEN ""
    ELSE IF rq.operation = "TRANSACTION" THEN ValidateTransactionRequest(rq)
    ELSE IF rq.mode = "BATCH" THEN ValidateBatch(rq)
    ELSE IF ~SafeMutation(rq) THEN "Missing values or identifier"
    ELSE IF rq.payload.kind # "dict" THEN "Invalid payload"
    ELSE ""

NoValRequest ==
    ValRequest("-", "-", Payload("none", 0), "none", Options(TRUE, {}), << >>)

Arrived(rq) ==
    [pc |-> "VALIDATE", request |-> rq, message |-> "", category |-> "-", quota |-> 0,
     handlerCalls |-> 0, leases |-> 0, statements |-> 0]

InitVal == val = [Arrived(NoValRequest) EXCEPT !.pc = "idle"]

\* a request arrives at process()
ValSubmit(rq) ==
    /\ val.pc = "idle"
    /\ val' = Arrived(rq)
    /\ UNCHANGED ValFrame

\* lines 130-133 and the except clause of process(): a ValidationError ends
\* the request with an error response
ValValidate ==
    /\ val.pc = "VALIDATE"
    /\ LET msg == ValidateRequest(val.request) IN
       val' = IF msg = "" THEN [val EXCEPT !.pc = "THROTTLE"]
              ELSE [val EXCEPT !.pc = "done", !.message = msg,
                               !.category = CategoryFromException("ValidationError")]
    /\ UNCHANGED ValFrame

\* THROTTLE: an admitted request is recorded in its session's window
ValThrottle ==
    /\ val.pc = "THROTTLE"
    /\ val' = [val EXCEPT !.pc = "EXECUTE",
                          !.quota = IF val.request.operation = "HEARTBEAT" THEN @ ELSE @ + 1]
    /\ UNCHANGED ValFrame

\* EXECUTE: handler.handle is invoked, leases a connection and hands its
\* statements to the driver
ValHandle ==
    /\ val.pc = "EXECUTE"
    /\ val' = [val EXCEPT !.pc = "done", !.handlerCalls = @ + 1, !.leases = @ + 1,
                          !.statements = IF val.request.operation = "TRANSACTION"
                                         THEN Len(val.request.operations) ELSE 1]
    /\ UNCHANGED ValFrame

NextVal ==
    \/ \E rq \in ValRequests : ValSubmit(rq)
    \/ ValValidate
    \/ ValThrottle
    \/ ValHandle

\* ------------------------------------------------------------------------
\* WriteSingleHandler.handle and DeleteSingleHandler.handle: the outcome by
\* row count
\* ------------------------------------------------------------------------
OldValues == {"absent", "empty", "present"}

ConflictMessage == "affected 0 rows - record was modified by another user (concurrency conflict)"
WriteNoMatchMessage == "affected 0 rows - no matching record or conflict detected"
DeleteNoMatchMessage == "DELETE affected 0 rows - no matching record found"

\* a test that takes every request for an optimistic-concurrency one
HasOccAlways(old) == TRUE

\* write/single.py line 53: bool(request.options and request.options.get("old_values"))
HasOcc(old) == old = "present"

\* what a handler returns without exception
MutationResponse(success, affected, message) ==
    [kind |-> "OperationResponse", success |-> success, data |-> None,
     affected_rows |-> affected, message |-> message, errors |-> << >>, metaCorr |-> None]

\* write/single.py lines 51-75
WriteSingleResult(old, affected) ==
    IF affected = 0
    THEN MutationResponse(FALSE, 0, IF HasOcc(old) THEN ConflictMessage
                                    ELSE WriteNoMatchMessage)
    ELSE MutationResponse(TRUE, affected, "Write operation successful")

\* delete/single.py lines 47-62
DeleteSingleResult(affected) ==
    IF affected = 0
    THEN MutationResponse(FALSE, 0, DeleteNoMatchMessage)
    ELSE MutationResponse(TRUE, affected, "Delete operation successful")

IdleWrite ==
    [pc |-> "idle", op |-> "-", old |-> "absent", raised |-> FALSE, rc |-> 0,
     result |-> NoHandlerResult, resp |-> NoEnvelope]

InitWrite == wr = IdleWrite

\* handle() is entered for a single-record mutation that passed VALIDATE
WrSubmit(op, old) ==
    /\ wr.pc = "idle"
    /\ wr' = [IdleWrite EXCEPT !.pc = "execute", !.op = op, !.old = old]
    /\ UNCHANGED WriteFrame

\* execute_non_query returns the row count and handle() answers by it
WrStatement(affected) ==
    /\ wr.pc = "execute"
    /\ wr' = [wr EXCEPT !.pc = "shape", !.rc = affected,
                        !.result = IF wr.op = "DELETE" THEN DeleteSingleResult(affected)
                                   ELSE WriteSingleResult(wr.old, affected)]
    /\ UNCHANGED WriteFrame

\* the builder or the statement raises: except Exception -> _handle_error
WrRaises(e) ==
    /\ wr.pc = "execute"
    /\ wr' = [wr EXCEPT !.pc = "shape", !.raised = TRUE, !.result = HandleError(e, "c1")]
    /\ UNCHANGED WriteFrame

\* SHAPE: _shape_response on what the handler returned
WrShape ==
    /\ wr.pc = "shape"
    /\ wr' = [wr EXCEPT !.pc = "done", !.resp = ShapeResponse(wr.result, "c1", FALSE)]
    /\ UNCHANGED WriteFrame

NextWrite ==
    \/ \E op \in {"INSERT", "UPDATE", "MERGE", "DELETE"}, old \in OldValues : WrSubmit(op, old)
    \/ \E affected \in RowCounts : WrStatement(affected)
    \/ \E e \in {"ValidationError", "TimeoutError", "TypeError"} : WrRaises(e)
    \/ WrShape

\* ------------------------------------------------------------------------
\* LIMIT and OFFSET of the SELECT statements: _request_to_select_intent,
\* SelectIntent, build_select and ReadBatchHandler._build_batch_select
\* ------------------------------------------------------------------------
\* an option that is not given (None), and a clause that is not emitted
Unset == 0 - 100

RequestedLimits == {Unset} \cup ((0 - 1)..(MaxReadLimit + 1))
RequestedOffsets == {Unset} \cup ((0 - 1)..1)

Min(a, b) == IF a <= b THEN a ELSE b

\* builders.py lines 241-244 and batch.py lines 158-161: the default for a
\* limit that is not given, capped at the global maximum
CappedLimit(limit) == Min(IF limit = Unset THEN DefaultReadLimit ELSE limit, MaxReadLimit)

\* sql_builders.py lines 74-104 and SelectIntent._validate_pagination
IntentRejects(limit, offset) ==
    \/ limit # Unset /\ limit <= 0
    \/ offset # Unset /\ offset < 0
    \/ offset # Unset /\ limit = Unset

IdleSelect ==
    [pc |-> "idle", path |-> "-", limit |-> Unset, offset |-> Unset, rejected |-> FALSE,
     emittedLimit |-> Unset, emittedOffset |-> Unset]

InitSelect == sel = IdleSelect

\* a READ reaches ReadSingleHandler or ReadBatchHandler
SelSubmit(path, limit, offset) ==
    /\ sel.pc = "idle"
    /\ sel' = [IdleSelect EXCEPT !.pc = path, !.path = path, !.limit = limit,
                                 !.offset = offset]
    /\ UNCHANGED SelectFrame

\* ReadSingle: build_select_query translates the request to a SelectIntent
SelIntent ==
    /\ sel.pc = "single"
    /\ sel' = IF IntentRejects(sel.limit, sel.offset)
              THEN [sel EXCEPT !.pc = "done", !.rejected = TRUE]
              ELSE [sel EXCEPT !.pc = "build"]
    /\ UNCHANGED SelectFrame

\* ReadSingle: build_select renders LIMIT, and OFFSET when the intent has one
SelBuild ==
    /\ sel.pc = "build"
    /\ sel' = [sel EXCEPT !.pc = "done", !.emittedLimit = CappedLimit(sel.limit),
                          !.emittedOffset = sel.offset]
    /\ UNCHANGED SelectFrame

\* ReadBatch: _build_batch_select renders LIMIT from options.get("limit")
\* and never looks at the offset
SelBatchBuild ==
    /\ sel.pc = "batch"
    /\ sel' = [sel EXCEPT !.pc = "done", !.emittedLimit = CappedLimit(sel.limit)]
    /\ UNCHANGED SelectFrame

NextSelect ==
    \/ \E path \in {"single", "batch"}, limit \in RequestedLimits,
          offset \in RequestedOffsets : SelSubmit(path, limit, offset)
    \/ SelIntent
    \/ SelBuild
    \/ SelBatchBuild

\* ------------------------------------------------------------------------
\* UPDATE / MERGE intents: _request_to_update_intent, validate_update,
\* build_write_query, WriteBatchHandler._batch_update_merge
\* ------------------------------------------------------------------------
UpdColumns == {"id", "name"}

NonEmptyKeys == SUBSET UpdColumns \ {{}}

\* one record of a request: keys of its payload and of its where clause
UpdRecord(payload, where) == [payload |-> payload, where |-> where]

\* the requests that pass VALIDATE: a single one has a non-empty payload and
\* where clause, a batch has dict records (possibly empty) with a non-empty
\* where clause each; old is the key set of options.old_values
UpdRequests ==
    {[operation |-> op, mode |-> "SINGLE", records |-> <<UpdRecord(p, w)>>, old |-> o] :
        op \in {"UPDATE", "MERGE"}, p \in NonEmptyKeys, w \in NonEmptyKeys,
        o \in SUBSET UpdColumns}
    \cup {[operation |-> op, mode |-> "BATCH", records |-> recs, old |-> {}] :
        op \in {"UPDATE", "MERGE"},
        recs \in SeqsUpTo({UpdRecord(p, w) : p \in SUBSET UpdColumns, w \in NonEmptyKeys},
                          MaxBatchSize) \ {<< >>}}

\* _request_to_update_intent; the sub-request of a batch carries no options
RequestToUpdateIntent(rq, i) ==
    [pk_values |-> rq.records[i].where, updates |-> rq.records[i].payload,
     old_values |-> IF rq.mode = "SINGLE" THEN rq.old ELSE {},
     strategy |-> rq.operation]

\* validate_update raises
ValidateUpdateRaises(intent) ==
    \/ intent.pk_values = {}
    \/ intent.updates = {}
    \/ intent.updates \cap intent.pk_values # {}
    \/ intent.old_values # {} /\ intent.old_values \cap intent.pk_values # {}

NoIntent == [pk_values |-> {}, updates |-> {}, old_values |-> {}, strategy |-> "-"]

IdleUpdate ==
    [pc |-> "idle",
     request |-> [operation |-> "-", mode |-> "-", records |-> << >>, old |-> {}],
     idx |-> 0, intent |-> NoIntent, builtFor |-> {}, executed |-> 0, rejected |-> FALSE]

InitUpdate == upd = IdleUpdate

\* handle() is entered
UpdSubmit(rq) ==
    /\ upd.pc = "idle"
    /\ upd' = [IdleUpdate EXCEPT !.pc = "build", !.request = rq, !.idx = 1]
    /\ UNCHANGED UpdateFrame

\* build_write_query for the record the loop is at: the ValueError of
\* validate_update ends handle() through _handle_error
UpdBuild ==
    /\ upd.pc = "build"
    /\ upd.idx <= Len(upd.request.records)
    /\ LET intent == RequestToUpdateIntent(upd.request, upd.idx) IN
       upd' = IF ValidateUpdateRaises(intent)
              THEN [upd EXCEPT !.pc = "done", !.rejected = TRUE, !.intent = intent]
              ELSE [upd EXCEPT !.pc = "execute", !.intent = intent,
                               !.builtFor = @ \cup {intent}]
    /\ UNCHANGED UpdateFrame

\* execute_non_query for the statement just built
UpdExecute ==
    /\ upd.pc = "execute"
    /\ upd' = [upd EXCEPT !.pc = "build", !.executed = @ + 1, !.idx = @ + 1]
    /\ UNCHANGED UpdateFrame

\* the loop is over: commit and answer
UpdFinish ==
    /\ upd.pc = "build"
    /\ upd.idx > Len(upd.request.records)
    /\ upd' = [upd EXCEPT !.pc = "done"]
    /\ UNCHANGED UpdateFrame

NextUpdate ==
    \/ \E rq \in UpdRequests : UpdSubmit(rq)
    \/ UpdBuild
    \/ UpdExecute
    \/ UpdFinish

\* ------------------------------------------------------------------------
\* Bind parameters of compiled filters: _build_filter_expr and
\* normalize_operator
\* ------------------------------------------------------------------------
\* identifiers as the sequence of their "_"-separated parts: a, a_1, b
FilterColumns == {<<"a">>, <<"a", "1">>, <<"b">>}

\* the value of a filter: a scalar, or a list of n elements
FilterValue(isList, n) == [list |-> isList, n |-> n]

FilterClause(column, op, value) == [column |-> column, op |-> op, value |-> value]

FilterClauses ==
    {FilterClause(c, "=", v) : c \in FilterColumns,
        v \in {FilterValue(FALSE, 1), FilterValue(TRUE, 0), FilterValue(TRUE, 2)}}
    \cup {FilterClause(c, "IN", v) : c \in FilterColumns,
        v \in {FilterValue(FALSE, 1), FilterValue(TRUE, 0), FilterValue(TRUE, 1),
               FilterValue(TRUE, 2)}}
    \cup {FilterClause(c, "BETWEEN", FilterValue(TRUE, 2)) : c \in FilterColumns}
    \cup {FilterClause(c, "IS NULL", FilterValue(FALSE, 0)) : c \in FilterColumns}

\* str(i) for the small indices of enumerate()
Decimal(i) == <<"0", "1", "2", "3", "4">>[i + 1]

\* normalize_operator(operator, value)
NormalizeOperator(f) ==
    IF ~f.value.list THEN f
    ELSE IF f.value.n = 0 THEN [f EXCEPT !.op = "IS NULL", !.value = FilterValue(FALSE, 0)]
    ELSE IF f.value.n = 1
    THEN [f EXCEPT !.op = IF f.op \in {"=", "IN"} THEN "=" ELSE f.op,
                   !.value = FilterValue(FALSE, 1)]
    ELSE [f EXCEPT !.op = IF f.op \in {"=", "IN"} THEN "IN" ELSE f.op]

\* f"{param_prefix}_{column}_{idx}" and f"{param_prefix}_{column}_{idx}_{suffix}"
ParamName(column, idx) == <<"p">> \o column \o <<Decimal(idx)>>
ParamNameSuffixed(column, idx, suffix) == ParamName(column, idx) \o <<suffix>>

\* _build_filter_expr(filter_clause, params, "p", idx): the predicate rendered,
\* the names of its placeholders and the number of values it binds
CompileFilter(f, idx) ==
    IF f.op = "IS NULL"
    THEN [pred |-> "IS NULL", names |-> {}, bound |-> 0]
    ELSE IF f.op = "IN"
    THEN LET n == IF f.value.list THEN f.value.n ELSE 1 IN
         [pred |-> "IN", bound |-> n,
          names |-> {ParamNameSuffixed(f.column, idx, Decimal(j)) : j \in 0..(n - 1)}]
    ELSE IF f.op = "BETWEEN"
    THEN [pred |-> "BETWEEN", bound |-> 2,
          names |-> {ParamNameSuffixed(f.column, idx, s) : s \in {"low", "high"}}]
    ELSE [pred |-> "=", names |-> {ParamName(f.column, idx)}, bound |-> 1]

IdleBuild ==
    [pc |-> "idle", filters |-> << >>, normalized |-> FALSE, k |-> 0, preds |-> << >>,
     sqlNames |-> {}, params |-> {}, values |-> 0]

InitBuild == bld = IdleBuild

\* build_select is called for an intent with these filters, which the caller
\* may have passed through normalize_operator
BuildSubmit(filters, normalized) ==
    /\ bld.pc = "idle"
    /\ bld' = [IdleBuild EXCEPT !.pc = "where", !.normalized = normalized,
                                !.filters = filters]
    /\ UNCHANGED BuildFrame

\* builders.py lines 211-215: one turn of the loop over intent.filters
BuildFilter ==
    /\ bld.pc = "where"
    /\ bld.k < Len(bld.filters)
    /\ LET f == bld.filters[bld.k + 1]
           c == CompileFilter(IF bld.normalized THEN NormalizeOperator(f) ELSE f, bld.k) IN
       bld' = [bld EXCEPT !.k = @ + 1,
                          !.preds = Append(@, [pred |-> c.pred, bound |-> c.bound]),
                          !.sqlNames = @ \cup c.names,
                          !.params = @ \cup c.names,
                          !.values = @ + c.bound]
    /\ UNCHANGED BuildFrame

\* the statement is rendered and returned with params
BuildRender ==
    /\ bld.pc = "where"
    /\ bld.k = Len(bld.filters)
    /\ bld' = [bld EXCEPT !.pc = "done"]
    /\ UNCHANGED BuildFrame

NextBuild ==
    \/ \E filters \in SeqsUpTo(FilterClauses, MaxFilters), normalized \in BOOLEAN :
          BuildSubmit(filters, normalized)
    \/ BuildFilter
    \/ BuildRender


\* ---------------------------------------------------------------------
\* Lazily created module globals: get_manager, get_settings,
\* _get_provider, get_registry test the global and assign it without a
\* lock; get_query_loader tests, takes _SINGLETON_LOCK and tests again.
\* ---------------------------------------------------------------------
Singletons == {"manager", "loader"}

Locked(s) == s = "loader"

InitSingleton ==
    sg = [inst |-> [s \in Singletons |-> 0],
          made |-> [s \in Singletons |-> 0],
          lock |-> [s \in Singletons |-> 0],
          pc   |-> [c \in Callers |-> [s \in Singletons |-> "idle"]],
          mine |-> [c \in Callers |-> [s \in Singletons |-> 0]],
          ret  |-> [c \in Callers |-> [s \in Singletons |-> 0]]]

\* if _manager is None: (the first, unlocked test)
GetCheck(c, s) ==
    /\ sg.pc[c][s] = "idle"
    /\ sg' = IF sg.inst[s] # 0
             THEN [sg EXCEPT !.pc[c][s] = "done", !.ret[c][s] = sg.inst[s]]
             ELSE [sg EXCEPT !.pc[c][s] = IF Locked(s) THEN "locking" ELSE "construct"]
    /\ UNCHANGED <<SingletonFrame>>

\* with _SINGLETON_LOCK: if _SINGLETON is None:
GetLock(c, s) ==
    /\ sg.pc[c][s] = "locking"
    /\ sg.lock[s] = 0
    /\ sg' = IF sg.inst[s] # 0
             THEN [sg EXCEPT !.pc[c][s] = "return"]
             ELSE [sg EXCEPT !.pc[c][s] = "construct", !.lock[s] = c]
    /\ UNCHANGED <<SingletonFrame>>

\* OperationManager() / Settings() / QueryLoader(...): a new instance
GetConstruct(c, s) ==
    /\ sg.pc[c][s] = "construct"
    /\ sg' = [sg EXCEPT !.pc[c][s] = "store",
                        !.made[s] = @ + 1,
                        !.mine[c][s] = sg.made[s] + 1]
    /\ UNCHANGED <<SingletonFrame>>

\* _manager = <the new instance>, leaving the with block where there is one
GetStore(c, s) ==
    /\ sg.pc[c][s] = "store"
    /\ sg' = [sg EXCEPT !.pc[c][s] = "return",
                        !.inst[s] = sg.mine[c][s],
                        !.lock[s] = 0]
    /\ UNCHANGED <<SingletonFrame>>

\* return _manager
GetReturn(c, s) ==
    /\ sg.pc[c][s] = "return"
    /\ sg' = [sg EXCEPT !.pc[c][s] = "done", !.ret[c][s] = sg.inst[s]]
    /\ UNCHANGED <<SingletonFrame>>

NextSingleton ==
    \E c \in Callers, s \in Singletons :
        \/ GetCheck(c, s)
        \/ GetLock(c, s)
        \/ GetConstruct(c, s)
        \/ GetStore(c, s)
        \/ GetReturn(c, s)


\* ---------------------------------------------------------------------
\* OBO token extraction: OperationManager.execute and extract_obo_token.
\* A header name is the sequence of its dash-separated words
\* (x, forwarded, access, token); what varies is the casing of each word.
\* ---------------------------------------------------------------------
HeaderWords == 4

WordCasings == {"lower", "Title", "UPPER"}

HeaderNames == [1..HeaderWords -> WordCasings]

\* H_ACCESS_TOKEN = "x-forwarded-access-token"
H_ACCESS_TOKEN == [i \in 1..HeaderWords |-> "lower"]

\* str.title(): every word capitalised, the rest of it lower case
Title(name) == [i \in 1..HeaderWords |-> "Title"]

\* headers.get(name) on a dict: the key has to equal the name
HeadersGet(key, carried, name) == carried /\ key = name

ExtractOboToken(key, carried) ==
    HeadersGet(key, carried, H_ACCESS_TOKEN) \/ HeadersGet(key, carried, Title(H_ACCESS_TOKEN))

InitAuth ==
    auth = [pc |-> "idle", key |-> H_ACCESS_TOKEN, carried |-> FALSE,
            explicit |-> FALSE, token |-> "none", identity |-> "none"]

\* api.execute(request, obo_token, headers=...)
AuthSubmit(key, carried, explicit) ==
    /\ auth.pc = "idle"
    /\ auth' = [auth EXCEPT !.pc = "execute", !.key = key, !.carried = carried,
                            !.explicit = explicit]
    /\ UNCHANGED <<AuthFrame>>

\* OperationManager.execute: effective_obo_token and the ExecutionContext
AuthExecute ==
    /\ auth.pc = "execute"
    /\ auth' = [auth EXCEPT !.pc = "lease",
                            !.token = IF auth.explicit THEN "explicit"
                                      ELSE IF ExtractOboToken(auth.key, auth.carried)
                                           THEN "header" ELSE "none"]
    /\ UNCHANGED <<AuthFrame>>

\* ExecutionContext.lease(use_obo=True): token None is the service principal
AuthLease ==
    /\ auth.pc = "lease"
    /\ auth' = [auth EXCEPT !.pc = "done",
                            !.identity = IF auth.token = "none" THEN "SP" ELSE "OBO"]
    /\ UNCHANGED <<AuthFrame>>

NextAuth ==
    \/ \E key \in HeaderNames, carried \in BOOLEAN, explicit \in BOOLEAN :
           AuthSubmit(key, carried, explicit)
    \/ AuthExecute
    \/ AuthLease


\* ---------------------------------------------------------------------
\* execute_non_query under a deadline inside transaction_context: the
\* statement runs on a daemon thread that the caller joins for
\* query_timeout_seconds, cancels best-effort, joins again and abandons.
\* ---------------------------------------------------------------------
IdleLate ==
    [pc |-> "idle", n |-> 0, k |-> 0, worker |-> "none", timedOut |-> FALSE,
     autocommit |-> TRUE, original |-> TRUE, closed |-> FALSE, pending |-> {},
     committed |-> {}]

InitLate == late = IdleLate

\* get_connection and transaction_context are entered:
\* original_autocommit = conn.autocommit, then autocommit = False
LateSubmit(n, original) ==
    /\ late.pc = "idle"
    /\ late' = [late EXCEPT !.pc = "start", !.n = n, !.k = 1, !.original = original,
                            !.autocommit = FALSE]
    /\ UNCHANGED <<LateFrame>>

\* thread.start() for statement k
LateStart ==
    /\ late.pc = "start"
    /\ late' = [late EXCEPT !.pc = "join", !.worker = "running"]
    /\ UNCHANGED <<LateFrame>>

\* the worker's cursor.execute returns: on an open connection the statement
\* takes effect, in the open transaction or durably under autocommit; it
\* raises on a closed connection or when the driver fails
LateWorkerEnd(ok) ==
    /\ late.worker = "running"
    /\ late' = IF ok /\ ~late.closed
               THEN IF late.autocommit
                    THEN [late EXCEPT !.worker = "done", !.committed = @ \cup {late.k}]
                    ELSE [late EXCEPT !.worker = "done", !.pending = @ \cup {late.k}]
               ELSE [late EXCEPT !.worker = "failed"]
    /\ UNCHANGED <<LateFrame>>

\* thread.join(timeout_seconds) returns with the thread finished
LateJoined ==
    /\ late.pc = "join"
    /\ late.worker \in {"done", "failed"}
    /\ late' = IF late.worker = "failed"
               THEN [late EXCEPT !.pc = "rollback"]
               ELSE IF late.k < late.n
               THEN [late EXCEPT !.pc = "start", !.k = @ + 1, !.worker = "none"]
               ELSE [late EXCEPT !.pc = "commit"]
    /\ UNCHANGED <<LateFrame>>

\* thread.join(timeout_seconds) returns with the thread alive:
\* cursor.cancel(), which stops the statement or not (its exception is
\* swallowed), then the second join
LateCancel(stopped) ==
    /\ late.pc = "join"
    /\ late.worker = "running"
    /\ late' = [late EXCEPT !.pc = "abandon",
                            !.worker = IF stopped THEN "failed" ELSE @]
    /\ UNCHANGED <<LateFrame>>

\* raise TimeoutError, whether or not the thread is still alive
LateTimeout ==
    /\ late.pc = "abandon"
    /\ late' = [late EXCEPT !.pc = "rollback", !.timedOut = TRUE]
    /\ UNCHANGED <<LateFrame>>

\* transaction_context: conn.commit()
LateCommit ==
    /\ late.pc = "commit"
    /\ late' = [late EXCEPT !.pc = "restore", !.committed = @ \cup late.pending,
                            !.pending = {}]
    /\ UNCHANGED <<LateFrame>>

\* transaction_context: conn.rollback()
LateRollback ==
    /\ late.pc = "rollback"
    /\ late' = [late EXCEPT !.pc = "restore", !.pending = {}]
    /\ UNCHANGED <<LateFrame>>

\* transaction_context: conn.autocommit = original_autocommit
LateRestore ==
    /\ late.pc = "restore"
    /\ late' = [late EXCEPT !.pc = "release", !.autocommit = late.original]
    /\ UNCHANGED <<LateFrame>>

\* get_connection: conn.close()
LateRelease ==
    /\ late.pc = "release"
    /\ late' = [late EXCEPT !.pc = "done", !.closed = TRUE]
    /\ UNCHANGED <<LateFrame>>

NextLate ==
    \/ \E n \in 1..MaxOps, original \in BOOLEAN : LateSubmit(n, original)
    \/ LateStart
    \/ \E ok \in BOOLEAN : LateWorkerEnd(ok)
    \/ LateJoined
    \/ \E stopped \in BOOLEAN : LateCancel(stopped)
    \/ LateTimeout
    \/ LateCommit
    \/ LateRollback
    \/ LateRestore
    \/ LateRelease


\* ---------------------------------------------------------------------
\* The WHERE clause of UPDATE and DELETE statements: VALIDATE
\* (validate_mutation_safety, the BATCH checks, the sub-request checks),
\* the handlers' own checks and the builders.  A mapping is represented by
\* its key set.
\* ---------------------------------------------------------------------
PayloadKeys == SUBSET {"name"}

WhereKeys == SUBSET {"id"}

\* request.where: None, a mapping, or a list of mappings
GuardWheres ==
    {[kind |-> "none", sets |-> << >>]}
    \cup {[kind |-> "dict", sets |-> <<w>>] : w \in WhereKeys}
    \cup {[kind |-> "list", sets |-> s] : s \in SeqsUpTo(WhereKeys, MaxBatchSize)}

\* single requests and sub-requests of a transaction
GuardSubs ==
    {[operation |-> op, payload |-> p, where |-> w] :
        op \in {"UPDATE", "DELETE"}, p \in PayloadKeys,
        w \in {g \in GuardWheres : Len(g.sets) <= 1}}

GuardRequest(op, mode, payload, where, ops) ==
    [operation |-> op, mode |-> mode, payload |-> payload, where |-> where,
     operations |-> ops]

GuardRequests ==
    {GuardRequest(s.operation, "SINGLE", <<s.payload>>, s.where, << >>) : s \in GuardSubs}
    \cup {GuardRequest(op, "BATCH", p, w, << >>) :
            op \in {"UPDATE", "DELETE"}, p \in SeqsUpTo(PayloadKeys, MaxBatchSize),
            w \in GuardWheres}
    \cup {GuardRequest("TRANSACTION", "SINGLE", << >>, [kind |-> "none", sets |-> << >>], ops) :
            ops \in SeqsUpTo(GuardSubs, MaxOps) \ {<< >>}}

\* where_dict = where if isinstance(where, dict) else None, as a key set
WhereDict(where) == IF where.kind = "dict" THEN where.sets[1] ELSE {}

\* `not request.where` is False
WhereGiven(where) ==
    \/ where.kind = "dict" /\ where.sets[1] # {}
    \/ where.kind = "list" /\ Len(where.sets) > 0

\* validate_mutation_safety raises
MutationSafetyRaises(op, payload, where) ==
    \/ op = "UPDATE" /\ (payload = {} \/ WhereDict(where) = {})
    \/ op = "DELETE" /\ WhereDict(where) = {}

\* _validate raises
GuardValidateRaises(rq) ==
    IF rq.operation = "TRANSACTION"
    THEN \/ TooManyStatements(Len(rq.operations))
         \/ \E i \in 1..Len(rq.operations) :
                MutationSafetyRaises(rq.operations[i].operation, rq.operations[i].payload,
                                     rq.operations[i].where)
    ELSE IF rq.mode = "BATCH"
    THEN \/ Len(rq.payload) = 0
         \/ ExceedsBatchSize(Len(rq.payload))
         \/ ~WhereGiven(rq.where)
         \/ /\ rq.operation = "UPDATE"
            /\ rq.where.kind = "list"
            /\ \/ Len(rq.where.sets) # Len(rq.payload)
               \/ \E i \in 1..Len(rq.where.sets) : rq.where.sets[i] = {}
    ELSE MutationSafetyRaises(rq.operation, rq.payload[1], rq.where)

\* _combine_and never raising
CombineAndAccepts(exprs) == FALSE

\* _combine_and / _combine_or raise on an empty list
CombineRaises(exprs) == exprs = {}

\* build_delete raises: a row with one equality is taken as it is, any other
\* goes through _combine_and; the rows go through _combine_or unless there
\* is exactly one
BuildDeleteRaises(pk_sets) ==
    \/ pk_sets = << >>
    \/ \E i \in 1..Len(pk_sets) : Cardinality(pk_sets[i]) # 1 /\ CombineRaises(pk_sets[i])

\* build_write_query of an UPDATE raises (validate_update)
BuildUpdateRaises(payload, where) ==
    ValidateUpdateRaises([pk_values |-> where, updates |-> payload, old_values |-> {},
                          strategy |-> "UPDATE"])

\* the where of record i of a batch UPDATE
RecordWhere(rq, i) ==
    IF rq.where.kind = "list" THEN rq.where.sets[i] ELSE WhereDict(rq.where)

IdleGuard ==
    [pc |-> "idle",
     request |-> GuardRequest("-", "-", << >>, [kind |-> "none", sets |-> << >>], << >>),
     idx |-> 0, statements |-> << >>, rejected |-> FALSE]

InitGuard == grd = IdleGuard

\* api.execute(request) for any of the requests
GuardSubmit ==
    /\ grd.pc = "idle"
    /\ \E rq \in GuardRequests : grd' = [grd EXCEPT !.pc = "validate", !.request = rq]
    /\ UNCHANGED <<GuardFrame>>

\* VALIDATE
GuardValidate ==
    /\ grd.pc = "validate"
    /\ grd' = IF GuardValidateRaises(grd.request)
              THEN [grd EXCEPT !.pc = "done", !.rejected = TRUE]
              ELSE [grd EXCEPT !.pc = "handle", !.idx = 1]
    /\ UNCHANGED <<GuardFrame>>

Reject == [grd EXCEPT !.pc = "done", !.rejected = TRUE]

\* the statement with these rows in its WHERE goes to execute_non_query
Emit(rows, last) ==
    [grd EXCEPT !.statements = Append(@, rows), !.idx = @ + 1,
                !.pc = IF last THEN "done" ELSE "handle"]

\* one UPDATE or DELETE of a single request or of a transaction
GuardOne(op, payload, where, last) ==
    IF op = "UPDATE"
    THEN IF BuildUpdateRaises(payload, WhereDict(where)) THEN Reject
         ELSE Emit(<<WhereDict(where)>>, last)
    ELSE IF MutationSafetyRaises(op, payload, where) \/ ~WhereGiven(where)
            \/ BuildDeleteRaises(<<WhereDict(where)>>)
         THEN Reject
         ELSE Emit(<<WhereDict(where)>>, last)

\* WriteSingle, DeleteSingle
GuardSingle ==
    /\ grd.pc = "handle"
    /\ grd.request.mode = "SINGLE" /\ grd.request.operation # "TRANSACTION"
    /\ grd' = GuardOne(grd.request.operation, grd.request.payload[1], grd.request.where, TRUE)
    /\ UNCHANGED <<GuardFrame>>

\* WriteBatchHandler._batch_update_merge: one turn of the loop
GuardBatchUpdate ==
    /\ grd.pc = "handle"
    /\ grd.request.mode = "BATCH" /\ grd.request.operation = "UPDATE"
    /\ LET rq == grd.request
           w == RecordWhere(rq, grd.idx) IN
       grd' = IF BuildUpdateRaises(rq.payload[grd.idx], w) THEN Reject
              ELSE Emit(<<w>>, grd.idx = Len(rq.payload))
    /\ UNCHANGED <<GuardFrame>>

\* DeleteBatchHandler.handle: one statement over the PK sets of the payload
GuardBatchDelete ==
    /\ grd.pc = "handle"
    /\ grd.request.mode = "BATCH" /\ grd.request.operation = "DELETE"
    /\ grd' = IF BuildDeleteRaises(grd.request.payload) THEN Reject
              ELSE Emit(grd.request.payload, TRUE)
    /\ UNCHANGED <<GuardFrame>>

\* TransactionHandler.handle: one turn of the loop
GuardTransaction ==
    /\ grd.pc = "handle"
    /\ grd.request.operation = "TRANSACTION"
    /\ LET sub == grd.request.operations[grd.idx] IN
       grd' = IF MutationSafetyRaises(sub.operation, sub.payload, sub.where) THEN Reject
              ELSE GuardOne(sub.operation, sub.payload, sub.where,
                            grd.idx = Len(grd.request.operations))
    /\ UNCHANGED <<GuardFrame>>

NextGuard ==
    \/ GuardSubmit
    \/ GuardValidate
    \/ GuardSingle
    \/ GuardBatchUpdate
    \/ GuardBatchDelete
    \/ GuardTransaction


\* ---------------------------------------------------------------------
\* Batch UPDATE/MERGE with a shared or per-record where: _validate and
\* WriteBatchHandler._batch_update_merge.  A where entry is 0 - 1 when it
\* is not a mapping, 0 for the empty mapping, and 1 or 2 for two different
\* non-empty mappings.
\* ---------------------------------------------------------------------
WhereEntries == {0 - 1, 0, 1, 2}

\* request.where: None (no entries), a shared mapping, a list
BatchWheres ==
    {[list |-> FALSE, entries |-> << >>]}
    \cup {[list |-> FALSE, entries |-> <<w>>] : w \in {0, 1}}
    \cup {[list |-> TRUE, entries |-> s] : s \in SeqsUpTo(WhereEntries, MaxBatchSize)}

\* lines 444-467: the where checks of a batch UPDATE/MERGE raise
BatchWhereRaises(n, where) ==
    \/ where.entries = << >>
    \/ ~where.list /\ where.entries[1] = 0
    \/ /\ where.list
       /\ \/ Len(where.entries) # n
          \/ \E i \in 1..Len(where.entries) : where.entries[i] <= 0

\* line 128: request.where[i] if per_record_where else request.where
RecordWhereOf(where, i) == IF where.list THEN where.entries[i] ELSE where.entries[1]

IdleBatchWhere ==
    [pc |-> "idle", op |-> "-", n |-> 0, where |-> [list |-> FALSE, entries |-> << >>],
     has |-> TRUE, leases |-> 0, idx |-> 0, log |-> << >>, pending |-> {},
     committed |-> {}, failedAt |-> 0, rejected |-> FALSE, category |-> "-"]

InitBatchWhere == bw = IdleBatchWhere

BwSubmit ==
    /\ bw.pc = "idle"
    /\ \E op \in {"UPDATE", "MERGE"}, n \in 1..MaxBatchSize, where \in BatchWheres :
           bw' = [bw EXCEPT !.pc = "validate", !.op = op, !.n = n, !.where = where]
    /\ UNCHANGED <<BatchWhereFrame>>

\* VALIDATE
BwValidate ==
    /\ bw.pc = "validate"
    /\ bw' = IF BatchWhereRaises(bw.n, bw.where)
             THEN [bw EXCEPT !.pc = "done", !.rejected = TRUE, !.category = "VALIDATION"]
             ELSE [bw EXCEPT !.pc = "enter"]
    /\ UNCHANGED <<BatchWhereFrame>>

\* with ctx.pool.get_connection(...) as conn: with transaction_context(conn):
BwEnter(has) ==
    /\ bw.pc = "enter"
    /\ bw' = [bw EXCEPT !.pc = "loop", !.has = has, !.leases = @ + 1, !.idx = 1]
    /\ UNCHANGED <<BatchWhereFrame>>

\* one turn of the loop: the statement of record idx is executed with its
\* where; it raises or takes effect, in the transaction when there is one
BwRecord(raises) ==
    /\ bw.pc = "loop"
    /\ bw.idx <= bw.n
    /\ LET entry == [idx |-> bw.idx, where |-> RecordWhereOf(bw.where, bw.idx),
                     lease |-> bw.leases] IN
       bw' = IF raises
             THEN [bw EXCEPT !.pc = "unwind", !.log = Append(@, entry), !.failedAt = bw.idx]
             ELSE IF ManagesTransaction(bw.has)
             THEN [bw EXCEPT !.log = Append(@, entry), !.pending = @ \cup {bw.idx},
                             !.idx = @ + 1]
             ELSE [bw EXCEPT !.log = Append(@, entry), !.committed = @ \cup {bw.idx},
                             !.idx = @ + 1]
    /\ UNCHANGED <<BatchWhereFrame>>

\* the loop is over: conn.commit() and the success response
BwCommit ==
    /\ bw.pc = "loop"
    /\ bw.idx > bw.n
    /\ bw' = [bw EXCEPT !.pc = "done", !.committed = @ \cup bw.pending, !.pending = {}]
    /\ UNCHANGED <<BatchWhereFrame>>

\* an exception leaves transaction_context: conn.rollback() where the
\* context manages a transaction, then _handle_error
BwUnwind ==
    /\ bw.pc = "unwind"
    /\ bw' = IF ManagesTransaction(bw.has)
             THEN [bw EXCEPT !.pc = "done", !.pending = {}]
             ELSE [bw EXCEPT !.pc = "done"]
    /\ UNCHANGED <<BatchWhereFrame>>

NextBatchWhere ==
    \/ BwSubmit
    \/ BwValidate
    \/ \E has \in BOOLEAN : BwEnter(has)
    \/ \E raises \in BOOLEAN : BwRecord(raises)
    \/ BwCommit
    \/ BwUnwind


\* ---------------------------------------------------------------------
\* One session of the rate limiter under check and the cleanup of OBSERVE,
\* with the window and the cleanup interval taken from the settings.
\* ---------------------------------------------------------------------
WindowChoices == {1, 2}

IntervalChoices == {1, 2, 3}

\* the timestamps of a deque that lie inside the window ending at `now`
Live(ts, now, window) == {i \in 1..Len(ts) : ts[i] > now - window}

\* the deque after the eviction loop of check
Evicted(ts, cutoff) == SelectSeq(ts, LAMBDA t : t > cutoff)

\* cleanup_stale removes the session: no timestamps, or the last one idle
StaleSession(ts, cutoff) == ts = << >> \/ ts[Len(ts)] <= cutoff

InitStale ==
    stale = [pc |-> "unset", window |-> 1, interval |-> 1, now |-> 0, tracked |-> FALSE,
             ts |-> << >>, lastCleanup |-> 0,
             chk |-> [pc |-> "idle", now |-> 0], cln |-> [pc |-> "idle", now |-> 0],
             removedLive |-> FALSE]

\* RequestLifecycle.__init__ reads the settings
StaleConfigure(window, interval) ==
    /\ stale.pc = "unset"
    /\ stale' = [stale EXCEPT !.pc = "run", !.window = window, !.interval = interval,
                              !.lastCleanup = stale.now]
    /\ UNCHANGED <<StaleFrame>>

StaleTick ==
    /\ stale.pc = "run"
    /\ stale.now < MaxTime
    /\ stale' = [stale EXCEPT !.now = @ + 1]
    /\ UNCHANGED <<StaleFrame>>

\* check: now = time.monotonic()
StaleCheckRead ==
    /\ stale.pc = "run"
    /\ stale.chk.pc = "idle"
    /\ stale' = [stale EXCEPT !.chk = [pc |-> "lock", now |-> stale.now]]
    /\ UNCHANGED <<StaleFrame>>

\* check: the section under the lock
StaleCheckLocked ==
    /\ stale.chk.pc = "lock"
    /\ LET kept == Evicted(stale.ts, stale.chk.now - stale.window) IN
       stale' = [stale EXCEPT !.chk.pc = "idle", !.tracked = TRUE,
                              !.ts = IF Len(kept) >= MaxRequests THEN kept
                                     ELSE Append(kept, stale.chk.now)]
    /\ UNCHANGED <<StaleFrame>>

\* OBSERVE: the interval has passed since the last cleanup
StaleObserve ==
    /\ stale.pc = "run"
    /\ stale.cln.pc = "idle"
    /\ stale.now - stale.lastCleanup >= stale.interval
    /\ stale' = [stale EXCEPT !.lastCleanup = stale.now, !.cln.pc = "read"]
    /\ UNCHANGED <<StaleFrame>>

\* cleanup_stale: now = time.monotonic()
StaleCleanupRead ==
    /\ stale.cln.pc = "read"
    /\ stale' = [stale EXCEPT !.cln = [pc |-> "lock", now |-> stale.now]]
    /\ UNCHANGED <<StaleFrame>>

\* cleanup_stale(max_idle_seconds = interval): the section under the lock
StaleCleanupLocked ==
    /\ stale.cln.pc = "lock"
    /\ stale' = IF stale.tracked /\ StaleSession(stale.ts, stale.cln.now - stale.interval)
                THEN [stale EXCEPT !.cln.pc = "idle", !.tracked = FALSE, !.ts = << >>,
                                   !.removedLive =
                                       @ \/ Live(stale.ts, stale.now, stale.window) # {}]
                ELSE [stale EXCEPT !.cln.pc = "idle"]
    /\ UNCHANGED <<StaleFrame>>

NextStale ==
    \/ \E window \in WindowChoices, interval \in IntervalChoices :
           StaleConfigure(window, interval)
    \/ StaleTick
    \/ StaleCheckRead
    \/ StaleCheckLocked
    \/ StaleObserve
    \/ StaleCleanupRead
    \/ StaleCleanupLocked


\* ---------------------------------------------------------------------
\* What a request costs its session: VALIDATE, THROTTLE, the admission
\* gate and the handler of process(), one request after another.
\* ---------------------------------------------------------------------
QuotaOperations == {"READ", "SCHEMA", "HEARTBEAT"}

NoSession == 0

\* a throttle that skips nothing
ThrottleSkipsNever(op, sid) == FALSE

\* _throttle returns before check for HEARTBEAT; check returns True at once
\* for a session id of None
ThrottleSkips(op, sid) == op = "HEARTBEAT" \/ sid = NoSession

InitQuota ==
    quo = [pc |-> "idle", op |-> "-", sid |-> NoSession, valid |-> TRUE, now |-> 0,
           ts |-> << >>, before |-> << >>, rec |-> 0, stamp |-> 0, lastCleanup |-> 0,
           outcome |-> "-"]

QuotaSubmit ==
    /\ quo.pc \in {"idle", "done"}
    /\ \E op \in QuotaOperations, sid \in {NoSession, 1}, valid \in BOOLEAN :
           quo' = [quo EXCEPT !.pc = "validate", !.op = op, !.sid = sid, !.valid = valid,
                              !.before = quo.ts, !.rec = 0, !.stamp = 0,
                              !.outcome = "-"]
    /\ UNCHANGED <<QuotaFrame>>

QuotaTick ==
    /\ quo.now < MaxTime
    /\ quo' = [quo EXCEPT !.now = @ + 1]
    /\ UNCHANGED <<QuotaFrame>>

\* VALIDATE
QuotaValidate ==
    /\ quo.pc = "validate"
    /\ quo' = IF quo.valid THEN [quo EXCEPT !.pc = "throttle"]
              ELSE [quo EXCEPT !.pc = "observe", !.outcome = "VALIDATION"]
    /\ UNCHANGED <<QuotaFrame>>

\* THROTTLE: _throttle and SessionRateLimiter.check
QuotaThrottle ==
    /\ quo.pc = "throttle"
    /\ quo' = IF ThrottleSkips(quo.op, quo.sid)
              THEN [quo EXCEPT !.pc = "admit"]
              ELSE LET ts == Evict(quo.ts, quo.now - WindowSeconds) IN
                   IF HasRoom(ts)
                   THEN [quo EXCEPT !.pc = "admit", !.ts = Append(ts, quo.now),
                                    !.rec = @ + 1, !.stamp = quo.now]
                   ELSE [quo EXCEPT !.pc = "observe", !.ts = ts, !.outcome = "THROTTLED"]
    /\ UNCHANGED <<QuotaFrame>>

\* the admission gate: try_acquire fails when it is full
QuotaAdmit(full) ==
    /\ quo.pc = "admit"
    /\ quo' = IF quo.op \notin {"HEARTBEAT", "SCHEMA"} /\ full
              THEN [quo EXCEPT !.pc = "observe", !.outcome = "ADMISSION"]
              ELSE [quo EXCEPT !.pc = "execute"]
    /\ UNCHANGED <<QuotaFrame>>

\* handler.handle returns or raises; the slot is released, SHAPE
QuotaHandle(ok) ==
    /\ quo.pc = "execute"
    /\ quo' = [quo EXCEPT !.pc = "observe", !.outcome = IF ok THEN "SUCCESS" ELSE "FAILED"]
    /\ UNCHANGED <<QuotaFrame>>

\* OBSERVE, on every path: the periodic cleanup_stale of the limiter
QuotaObserve ==
    /\ quo.pc = "observe"
    /\ quo' = IF quo.now - quo.lastCleanup >= CleanupIntervalSeconds
              THEN [quo EXCEPT !.pc = "done", !.lastCleanup = quo.now,
                               !.ts = IF StaleSession(@, quo.now - CleanupIntervalSeconds)
                                      THEN << >> ELSE @]
              ELSE [quo EXCEPT !.pc = "done"]
    /\ UNCHANGED <<QuotaFrame>>

NextQuota ==
    \/ QuotaSubmit
    \/ QuotaTick
    \/ QuotaValidate
    \/ QuotaThrottle
    \/ \E full \in BOOLEAN : QuotaAdmit(full)
    \/ \E ok \in BOOLEAN : QuotaHandle(ok)
    \/ QuotaObserve

NextRate ==
    \/ Tick
    \/ \E c \in Callers : CheckNone(c)
    \/ \E c \in Callers, sid \in SessionIds : CheckReadClock(c, sid)
    \/ \E c \in Callers : CheckLocked(c)
    \/ CleanupReadClock
    \/ CleanupLocked

Init == InitRate /\ InitLife /\ InitPool /\ InitTxn /\ InitWarm /\ InitSchema /\ InitEnv /\ InitDrv /\ InitTmo /\ InitVal /\ InitWrite /\ InitSelect /\ InitUpdate /\ InitBuild /\ InitSingleton /\ InitAuth /\ InitLate /\ InitGuard /\ InitBatchWhere /\ InitStale /\ InitQuota

SpecRate == Init /\ [][NextRate]_vars

Spec == Init /\ [][NextLife]_vars

SpecPool == Init /\ [][NextPool]_vars

SpecTxn == Init /\ [][NextTxn]_vars

SpecWarm == Init /\ [][NextWarm]_vars

SpecSchema == Init /\ [][NextSchema]_vars

SpecSchemaTtl == Init /\ [][NextSchemaTtl]_vars

SpecEnvelope == Init /\ [][NextEnvelope]_vars

SpecBurst == Init /\ [][NextBurst]_vars

SpecDrv == Init /\ [][NextDrv]_vars

SpecTmo == Init /\ [][NextTmo]_vars

SpecVal == Init /\ [][NextVal]_vars

SpecWrite == Init /\ [][NextWrite]_vars

SpecSelect == Init /\ [][NextSelect]_vars

SpecUpdate == Init /\ [][NextUpdate]_vars

SpecBuild == Init /\ [][NextBuild]_vars

SpecSingleton == Init /\ [][NextSingleton]_vars

SpecAuth == Init /\ [][NextAuth]_vars

SpecLate == Init /\ [][NextLate]_vars

SpecGuard == Init /\ [][NextGuard]_vars

SpecBatchWhere == Init /\ [][NextBatchWhere]_vars

SpecStale == Init /\ [][NextStale]_vars

SpecQuota == Init /\ [][NextQuota]_vars

\* number of admitted calls of session s with timestamp in (t - window, t]
RECURSIVE SumOver(_, _)
SumOver(f, S) ==
    IF S = {} THEN 0
    ELSE LET x == CHOOSE y \in S : TRUE IN f[x] + SumOver(f, S \ {x})

WindowCount(s, t) ==
    SumOver(admitted[s], {u \in Times : u > t - WindowSeconds /\ u <= t})

\* C1: in every rolling window (t - window_seconds, t] the number of check()
\* calls of one session that returned True never exceeds max_requests.
C1_RollingWindowBound ==
    \A s \in SessionIds, t \in Times : WindowCount(s, t) <= MaxRequests

\* ------------------------------------------------------------------------
\* Properties of the lifecycle and the admission gate (specification Spec)
\* ------------------------------------------------------------------------

\* C2: the number of non-exempt requests (every operation other than HEARTBEAT
\* and SCHEMA) whose handler is executing at the same time never exceeds
\* max_concurrent_queries.
C2_ConcurrentExecutionsBounded == Cardinality(Executing) <= MaxConcurrentQueries

\* the gate is full and a further request has been turned away meanwhile
C2_Witness ==
    /\ Cardinality(Executing) = MaxConcurrentQueries
    /\ \E r \in Reqs : gateFull[r] /\ pc[r] = "done"

Holding == {r \in Reqs : acq[r] > rel[r]}

\* C3: a slot acquired by process() is released exactly once before process()
\* returns, whether the handler returns or raises; a request that acquired no
\* slot releases none; with no request in flight the gate has all its slots.
C3_SlotReleasedExactlyOnce ==
    /\ \A r \in Reqs : acq[r] <= 1 /\ rel[r] <= acq[r]
    /\ \A r \in Reqs : pc[r] \in {"shape", "observe", "except", "mgrexcept", "done"}
                          => rel[r] = acq[r]
    /\ permits = MaxConcurrentQueries - Cardinality(Holding)
    /\ (\A r \in Reqs : pc[r] \in {"idle", "done"}) => permits = MaxConcurrentQueries

\* one call whose handler raised and one whose handler returned have both
\* given their slot back, and an exempt call has finished without a slot
C3_Witness ==
    /\ \E r \in Reqs : pc[r] = "done" /\ failedAt[r] = "EXECUTE" /\ acq[r] = 1 /\ rel[r] = 1
    /\ \E r \in Reqs : pc[r] = "done" /\ resp[r].success /\ req[r].operation = "HEARTBEAT"
                          /\ acq[r] = 0 /\ rel[r] = 0
    /\ permits = MaxConcurrentQueries

\* C4: a non-exempt request that reaches the gate while max_concurrent_queries
\* non-exempt requests are executing is neither queued nor made to wait: it
\* goes straight to the error path, its handler is never invoked, and it ends
\* with success=false and errors[0].category = ADMISSION.
C4_FullGateRejectsAtOnce ==
    \A r \in Reqs :
        gateFull[r] =>
            /\ pc[r] \in {"except", "done"}
            /\ failedAt[r] = "ADMISSION"
            /\ handlerCalls[r] = 0
            /\ acq[r] = 0
            /\ pc[r] = "done" =>
                  /\ resp[r].present
                  /\ ~resp[r].success
                  /\ resp[r].category = "ADMISSION"

C4_Witness ==
    \E r \in Reqs :
        /\ gateFull[r]
        /\ pc[r] = "done"
        /\ Cardinality(Executing) = MaxConcurrentQueries

PhaseFailures == {"VALIDATE", "THROTTLE", "ROUTE", "ADMISSION", "EXECUTE", "SHAPE"}

\* C5: whatever phase fails (validation, throttle, routing, admission, handler,
\* shaping), process() returns a response with success=false instead of
\* raising, and every finished execute() call has returned a response.
C5_AlwaysReturnsResponse ==
    \A r \in Reqs :
        /\ pc[r] = "done" => resp[r].present
        /\ failedAt[r] \in PhaseFailures => pc[r] \in {"except", "done"}
        /\ (pc[r] = "done" /\ failedAt[r] \in PhaseFailures)
              => procOutcome[r] = "returned" /\ ~resp[r].success
        /\ pc[r] # "mgrexcept" => procOutcome[r] # "raised" \/ failedAt[r] = "PROLOGUE"

\* calls that failed in routing (an untyped ValueError) and in shaping have
\* ended, each with a failure response returned by process()
C5_Witness ==
    /\ \E r \in Reqs : pc[r] = "done" /\ failedAt[r] = "ROUTE"
                          /\ procOutcome[r] = "returned" /\ ~resp[r].success
    /\ \E r \in Reqs : pc[r] = "done" /\ failedAt[r] = "SHAPE"
                          /\ procOutcome[r] = "returned" /\ ~resp[r].success

IsPrefix(a, b) == Len(a) <= Len(b) /\ a = SubSeq(b, 1, Len(a))

\* position in PhaseOrder of the last phase entered when a failure is raised
FailIndex(w) ==
    CASE w = "VALIDATE" -> 1 [] w = "THROTTLE" -> 2 [] w = "AUTHN" -> 3
      [] w = "ROUTE" -> 4 [] w = "ADMISSION" -> 6 [] w = "EXECUTE" -> 7
      [] w = "SHAPE" -> 8

CountOf(seq, x) == Cardinality({i \in 1..Len(seq) : seq[i] = x})

\* C6: the phases are entered in the order VALIDATE, THROTTLE, AUTHN, ROUTE,
\* WARMUP, RESOLVE, EXECUTE, SHAPE, OBSERVE, none reordered or repeated; after
\* a failure only OBSERVE is entered; the handler is not invoked after a
\* VALIDATE, THROTTLE, ROUTE or admission failure; a call that process()
\* returned from has entered OBSERVE exactly once, last.
C6_PhaseOrder ==
    \A r \in Reqs :
        LET ph == phases[r] IN
        /\ failedAt[r] = None => IsPrefix(ph, PhaseOrder)
        /\ failedAt[r] \in PhaseFailures =>
              LET upto == SubSeq(PhaseOrder, 1, FailIndex(failedAt[r]))
              IN ph = upto \/ ph = Append(upto, "OBSERVE")
        /\ failedAt[r] \in {"VALIDATE", "THROTTLE", "ROUTE", "ADMISSION"}
              => handlerCalls[r] = 0
        /\ handlerCalls[r] <= 1
        /\ (pc[r] = "done" /\ procOutcome[r] = "returned")
              => CountOf(ph, "OBSERVE") = 1 /\ ph[Len(ph)] = "OBSERVE"

\* an admission-rejected call has ended without reaching EXECUTE, and a call
\* whose handler raised has ended, each with OBSERVE as its last phase
C6_Witness ==
    /\ \E r \in Reqs : pc[r] = "done" /\ failedAt[r] = "ADMISSION"
                          /\ phases[r] = <<"VALIDATE", "THROTTLE", "AUTHN", "ROUTE",
                                           "WARMUP", "RESOLVE", "OBSERVE">>
    /\ \E r \in Reqs : pc[r] = "done" /\ failedAt[r] = "EXECUTE"
                          /\ phases[r] = <<"VALIDATE", "THROTTLE", "AUTHN", "ROUTE",
                                           "WARMUP", "RESOLVE", "EXECUTE", "OBSERVE">>

\* ------------------------------------------------------------------------
\* Properties of the connection leases (specification SpecPool)
\* ------------------------------------------------------------------------
Leases == 1..Len(stack)

IdentityKind(token) == IF token = None THEN "SP" ELSE "OBO"

\* connections whose opening lease is still active
HeldConns == {stack[i].conn : i \in {k \in Leases : stack[k].branch # "reuse"}}

\* C8: within one task, for every nesting of leases, no service-principal
\* connection is yielded while an on-behalf-of lease is active and no
\* on-behalf-of connection while a service-principal lease is active.
C8_NoIdentityMixing ==
    \A i \in Leases, j \in Leases :
        i < j => IdentityKind(stack[i].token) = IdentityKind(stack[j].token)

\* C9: a lease with token B while the OBO connection of another token A is
\* cached opens a one-shot connection; the cached slot keeps connection and
\* token A; the one-shot connection is closed when its lease exits; a later
\* lease with A inside the outer scope reuses the cached connection; no
\* connection is yielded for a token other than the one it was opened with.
C9_OneShotLeavesCacheAlone ==
    /\ \A j \in Leases :
          stack[j].branch = "oneshot" =>
              \E i \in Leases :
                  /\ i < j
                  /\ stack[i].branch = "obo"
                  /\ stack[i].token # stack[j].token
                  /\ oboConn = stack[i].conn
                  /\ oboToken = stack[i].token
                  /\ stack[j].conn # oboConn
    /\ \A j \in Leases :
          (stack[j].token # None /\ oboConn # 0 /\ stack[j].token = oboToken)
              => stack[j].conn = oboConn
    /\ \A j \in Leases : conns[stack[j].conn].token = stack[j].token
    /\ \A c \in 1..Len(conns) :
          conns[c].branch = "oneshot" =>
              conns[c].closeCalls = IF c \in HeldConns THEN 0 ELSE 1

\* A is cached, a one-shot lease of B is active, A is reused inside it, and an
\* earlier one-shot connection has been closed
C9_Witness ==
    /\ Len(stack) = 3
    /\ stack[1].branch = "obo" /\ stack[1].token = "A"
    /\ stack[2].branch = "oneshot" /\ stack[2].token = "B"
    /\ stack[3].branch = "reuse" /\ stack[3].token = "A" /\ stack[3].conn = stack[1].conn
    /\ oboToken = "A" /\ oboConn = stack[1].conn
    /\ \E c \in 1..Len(conns) : conns[c].branch = "oneshot" /\ conns[c].closeCalls = 1

\* what C10 says of closing: once, when the opening lease exits, the slot
\* cleared, the error of close() kept from the caller
ClosedOnceByOwner ==
    /\ \A c \in 1..Len(conns) : conns[c].closeCalls = IF c \in HeldConns THEN 0 ELSE 1
    /\ spConn # 0 => \E i \in Leases : stack[i].branch = "sp" /\ stack[i].conn = spConn
    /\ oboConn # 0 => \E i \in Leases : /\ stack[i].branch = "obo"
                                        /\ stack[i].conn = oboConn
                                        /\ stack[i].token = oboToken
    /\ oboConn = 0 => oboToken = None
    /\ ~closeRaised

\* C10 as stated: for each identity (SP, or OBO with a given token) a nested
\* lease with the same identity yields the same connection without opening a
\* new one; the connection is closed exactly once when the outermost lease
\* exits, the slot is cleared and a close error is not propagated.
C10_SameIdentitySameConnection ==
    /\ \A i \in Leases, j \in Leases :
          (i < j /\ stack[i].token = stack[j].token)
              => stack[j].conn = stack[i].conn /\ stack[j].branch = "reuse"
    /\ ClosedOnceByOwner

\* C10 amended: the identity must be the cached one.  A nested lease with the
\* identity of a cached connection (SP, or OBO with the cached token) yields
\* that connection, opens none and closes none; each slot holds at most one
\* connection, that of the one active lease that opened it; a connection is
\* closed exactly once, when the lease that opened it exits, normally or by
\* exception, its slot is cleared and a close error is not propagated.
C10_CachedIdentityReused ==
    /\ \A i \in Leases, j \in Leases :
          (i < j /\ stack[i].token = stack[j].token /\ stack[i].branch \in {"sp", "obo"})
              => stack[j].conn = stack[i].conn /\ stack[j].branch = "reuse"
    /\ \A j \in Leases :
          stack[j].branch = "reuse" =>
              \E i \in Leases : /\ i < j
                                /\ stack[i].branch \in {"sp", "obo"}
                                /\ stack[i].token = stack[j].token
                                /\ stack[i].conn = stack[j].conn
    /\ Cardinality({i \in Leases : stack[i].branch = "sp"}) <= 1
    /\ Cardinality({i \in Leases : stack[i].branch = "obo"}) <= 1
    /\ ClosedOnceByOwner

\* a connection that was leased again while cached has been closed once, on an
\* exit by exception, close() having raised; nothing is cached any more
C10_Witness ==
    /\ stack = << >>
    /\ spConn = 0 /\ oboConn = 0
    /\ \E c \in 1..Len(conns) :
          /\ conns[c].reused
          /\ conns[c].closeCalls = 1
          /\ lastClose = [conn |-> c, byException |-> TRUE, closeError |-> TRUE]

\* ------------------------------------------------------------------------
\* Properties of the transaction handler (specification SpecTxn)
\* ------------------------------------------------------------------------
AllOps == 1..Len(txOps)

\* C7: for every TRANSACTION request either the effects of all
\* sub-operations are committed or the effects of none: a failure in
\* sub-operation k (mutation safety, SQL build, driver error, timeout) rolls
\* back sub-operations 1..k-1, leaves the database in its pre-request state
\* and yields success=false.
C7_TransactionAtomic ==
    (txPc = "done" /\ txResp \in {"success", "failure"}) =>
        /\ dbCommitted = {} \/ dbCommitted = AllOps
        /\ dbPending = {}
        /\ txFailedAt # 0 => dbCommitted = {} /\ txResp = "failure"

\* ------------------------------------------------------------------------
\* Properties of the warmup gate (specification SpecWarm)
\* ------------------------------------------------------------------------
WarmExecuting == {c \in Callers : wPc[c] = "exec"}

\* C14: after a warmup statement has succeeded, maybe_warm executes no
\* further warmup statement, for any caller and any interleaving, until
\* warehouse_warmup_ttl_seconds have elapsed since that success.
C14_NoWarmupWithinTtl ==
    \A c \in WarmExecuting :
        wLastSuccess # NoStamp => (wNow[c] - wLastSuccess) >= WarmupTtlSeconds

\* one caller was turned away inside the TTL of a success, and another
\* executes the statement again now that the TTL has elapsed
C14_Witness ==
    /\ wLastSuccess # NoStamp
    /\ \E c \in Callers :
          /\ wPc[c] = "done" /\ wResult[c] = "False"
          /\ wNow[c] >= wLastSuccess
          /\ (wNow[c] - wLastSuccess) < WarmupTtlSeconds
    /\ \E d \in WarmExecuting : (wNow[d] - wLastSuccess) >= WarmupTtlSeconds

\* C15: after a warmup attempt has failed, maybe_warm makes no further
\* attempt until warehouse_warmup_failure_backoff_seconds have elapsed since
\* that attempt, whether or not a warmup has succeeded earlier.
C15_BackoffAfterFailure ==
    \A c \in WarmExecuting :
        wFailedAt # NoStamp => (wNow[c] - wFailedAt) >= WarmupFailureBackoffSeconds

\* C16: at most one warmup statement executes at any time, its caller holds
\* the mutex, and a caller that waited for the mutex while a warmup succeeded
\* does not execute a second one inside the TTL of that success.
C16_SingleFlight ==
    /\ Cardinality(WarmExecuting) <= 1
    /\ \A c \in Callers : wPc[c] \in {"locked", "exec"} <=> wLock = c
    /\ \A c \in WarmExecuting :
          wWaitedSuccess[c] # NoStamp
              => (wNow[c] - wWaitedSuccess[c]) >= WarmupTtlSeconds

\* a caller that waited for the mutex while another caller's warmup succeeded
\* has re-checked under the mutex and returned without executing
C16_Witness ==
    \E c \in Callers, d \in Callers :
        /\ c # d
        /\ wPc[c] = "done" /\ wResult[c] = "False" /\ wWaitedSuccess[c] # NoStamp
        /\ wPc[d] = "done" /\ wResult[d] = "True"
        /\ wLastSuccess = wWaitedSuccess[c]

\* ------------------------------------------------------------------------
\* Properties of the schema provider (specifications SpecSchema, SpecSchemaTtl)
\* ------------------------------------------------------------------------
Fetching(p) == {t \in Callers : sPc[t] = "fetching" /\ sProv[t] = p}

Served == {"memory", "file", "fetch"}

\* C11: for the table key T at most one information_schema fetch is in
\* flight on a provider at any time, under every interleaving of concurrent
\* get_table_schema(T) and invalidate_table_schema(T) calls.
C11_SingleFlightFetch ==
    \A p \in Providers : Cardinality(Fetching(p)) <= 1

\* C12: after invalidate(T) has returned, the next get(T), whether issued by
\* RESOLVE or by a SCHEMA handler, returns a schema fetched after every
\* schema that was cached before the invalidation (fetches being numbered in
\* the order of their fetched_at).
C12_NoStaleAfterInvalidate ==
    \A t \in Callers :
        (sPc[t] = "done" /\ sResult[t].tier \in Served /\ sInvalidated > 0)
            => sResult[t].seq > sInvalidated

\* a get_table_schema call of thread t returns in this step
Returns(t) == sPc[t] # "done" /\ sPc'[t] = "done" /\ sResult'[t].tier # "-"

\* C13: two consecutive get_table_schema(T) calls on a provider within the
\* TTL, with no invalidate(T) in between, return the same fetched_at and the
\* second performs no fetch; an entry is served from memory only while its
\* age since cached_at is at most the TTL, and from the file only while its
\* age since fetched_at is at most the TTL.
C13_StableWithinTtl ==
    [][\A t \in Callers :
          /\ (/\ Returns(t)
              /\ sResult[t].tier \in Served
              /\ sResult[t].prov = sResult'[t].prov
              /\ (wall - sResult[t].fetchedAt) <= SchemaTtlSeconds)
                => /\ sResult'[t].tier \in {"memory", "file"}
                   /\ sResult'[t].seq = sResult[t].seq
                   /\ sResult'[t].fetchedAt = sResult[t].fetchedAt
          /\ (Returns(t) /\ sResult'[t].tier = "memory")
                => (wall - sMemory[sProv[t]].cachedAt) <= SchemaTtlSeconds
          /\ (sPc[t] \in {"file", "refile"} /\ sPc'[t] \in {"promote", "repromote"})
                => (wall - sFile.fetchedAt) <= SchemaTtlSeconds]_vars

\* a call was answered from memory exactly when the age of the entry had
\* reached the TTL, and the clock has since moved past it
C13_Witness ==
    \E t \in Callers :
        /\ sPc[t] = "done" /\ sResult[t].tier = "memory"
        /\ (sResult[t].at - sResult[t].fetchedAt) = SchemaTtlSeconds
        /\ wall > sResult[t].at

\* ------------------------------------------------------------------------
\* Properties of the response envelope (specification SpecEnvelope)
\* ------------------------------------------------------------------------
\* C17: a failure of the warmup statement or of schema resolution never
\* raises into the pipeline and never turns the response into success=false:
\* the request goes on to EXECUTE unless the admission gate rejects it, a
\* warmup failure leaves the success stamp as it was and writes the attempt
\* stamp, and a RESOLVE failure yields a response without schema.
C17_BestEffort ==
    /\ call.failedAt \notin {"WARMUP", "RESOLVE"}
    /\ call.warm = "failed" => wLastSuccess = call.successBefore /\ wLastAttempt = clock
    /\ (call.pc = "done" /\ (call.warm = "failed" \/ call.resolveFailed)) =>
          /\ call.resp.present
          /\ call.failedAt # "ADMISSION" => call.invoked
          /\ ~call.resp.success =>
                \/ call.failedAt \in {"ADMISSION", "EXECUTE", "SHAPE", "OBSERVE"}
                \/ call.handler.kind \in {"OperationResponse", "invalid"}
                   /\ ~call.handler.success
          /\ call.resolveFailed => call.resp.schema = "()"

\* the warmup statement failed, schema resolution failed, the handler ran and
\* the response is a success without schema
C17_Witness ==
    /\ call.pc = "done"
    /\ call.warm = "failed" /\ wFailedAt = clock /\ wLastSuccess = NoStamp
    /\ call.resolveFailed
    /\ call.invoked /\ call.handler.kind = "QueryResult"
    /\ call.resp.success /\ call.resp.schema = "()"

\* C18: every response with success=false returned by execute() has
\* data = null, affected_rows = 0, a non-empty errors sequence and message
\* equal to errors[0].message, whichever phase or handler result produced it.
C18_FailureEnvelope ==
    (call.pc = "done" /\ call.resp.present /\ ~call.resp.success) =>
        /\ call.resp.data = None
        /\ call.resp.affected_rows = 0
        /\ call.resp.errors # << >>
        /\ call.resp.message = call.resp.errors[1].message

\* C19: every response returned by execute() has metadata.correlation_id
\* set, and it equals the correlation id passed by the caller whenever a
\* non-empty one was passed, whatever metadata the handler returned.
C19_CorrelationId ==
    (call.pc = "done" /\ call.resp.present) =>
        /\ Truthy(call.resp.correlation_id)
        /\ Truthy(call.caller) => call.resp.correlation_id = call.caller

\* ------------------------------------------------------------------------
\* Properties of a throttled burst (specification SpecBurst)
\* ------------------------------------------------------------------------
\* the THROTTLE phase of a non-HEARTBEAT request of the worker acts in this step
Throttles == pc[1] = "throttle" /\ pc'[1] # "throttle" /\ req[1].operation # "HEARTBEAT"

\* C20: with max_requests admitted requests of one session inside the
\* window, a further non-HEARTBEAT request yields success=false with category
\* THROTTLE and its handler is not invoked; a rejected attempt records no
\* timestamp, and a request is rejected only while the window still holds
\* max_requests admitted requests, so once window_seconds have elapsed since
\* the admitted burst a further request is admitted, however many retries
\* were rejected meanwhile.  (max_requests and window_seconds are scaled to
\* MaxRequests and WindowSeconds.)
C20_ThrottledBurst ==
    /\ [](\A r \in Reqs :
            (pc[r] = "done" /\ failedAt[r] = "THROTTLE") =>
                /\ resp[r].present /\ ~resp[r].success
                /\ resp[r].category = "THROTTLE"
                /\ handlerCalls[r] = 0)
    /\ [][Throttles =>
            /\ (failedAt'[1] = "THROTTLE") <=> (WindowCount("s1", clock) >= MaxRequests)
            /\ failedAt'[1] = "THROTTLE" =>
                  /\ admitted' = admitted
                  /\ Len(sessions'["s1"]) = MaxRequests
                  /\ \A i \in 1..MaxRequests : sessions'["s1"][i] > clock - WindowSeconds
            /\ failedAt'[1] # "THROTTLE" =>
                  /\ admitted'["s1"][clock] = admitted["s1"][clock] + 1
                  /\ pc'[1] = "authn"]_vars

\* the burst was admitted at time 0, a further request was rejected inside the
\* window with nothing recorded, and the handler was not called
C20_Witness ==
    /\ clock = 1
    /\ admitted["s1"][0] = MaxRequests /\ admitted["s1"][1] = 0
    /\ pc[1] = "done" /\ failedAt[1] = "THROTTLE"
    /\ resp[1].category = "THROTTLE" /\ handlerCalls[1] = 0
    /\ sessions["s1"] = <<0, 0>>

\* ------------------------------------------------------------------------
\* Properties of the driver calls in flight (specification SpecDrv)
\* ------------------------------------------------------------------------
\* C21: at any moment the number of driver calls in flight across all
\* concurrent requests, for every mix of operations, is at most
\* max_concurrent_queries.
C21_DriverCallsBounded == Cardinality(InFlight) <= MaxConcurrentQueries

\* ------------------------------------------------------------------------
\* Properties of the per-statement deadline (specification SpecTmo)
\* ------------------------------------------------------------------------
\* C22: when a driver call does not complete within query_timeout_seconds,
\* cursor.cancel is invoked exactly once for it and the request ends with
\* success=false, category TIMEOUT and its admission slot released.
C22_TimeoutEndsRequest ==
    (tmo.pc = "done" /\ tmo.overdue # {}) =>
        /\ tmo.cancels = Cardinality(tmo.overdue)
        /\ tmo.success = "FALSE"
        /\ tmo.category = "TIMEOUT"
        /\ ~tmo.slot

\* ------------------------------------------------------------------------
\* Ordering inside a TRANSACTION (specification SpecTxn)
\* ------------------------------------------------------------------------
RECURSIVE SumCounts(_)
SumCounts(log) == IF log = << >> THEN 0 ELSE log[1].rc + SumCounts(Tail(log))

\* C23: the statements of a TRANSACTION run in declared order on one leased
\* connection, statement k+1 is not started before k completed, nothing runs
\* after the first failing sub-operation, and the affected_rows of a
\* committed transaction is the sum of the per-statement row counts.
C23_OrderedOnOneConnection ==
    /\ \A i \in 1..Len(txLog) : txLog[i].idx = i
    /\ \A i \in 1..Len(txLog) : i < Len(txLog) => txLog[i].completed
    /\ \A i, j \in 1..Len(txLog) : txLog[i].conn = txLog[j].conn
    /\ txFailedAt > 0 => Len(txLog) <= txFailedAt
    /\ (txPc = "done" /\ txResp = "success") =>
           /\ Len(txLog) = Len(txOps)
           /\ totalAffected = SumCounts(txLog)

C23_Witness ==
    /\ txPc = "done"
    /\ txResp = "success"
    /\ Len(txLog) = 2
    /\ txLog[1].rc = 2
    /\ txLog[2].rc = 0 - 1
    /\ totalAffected = 1

\* ------------------------------------------------------------------------
\* Properties of VALIDATE (specification SpecVal)
\* ------------------------------------------------------------------------
Validated == val.pc \notin {"idle", "VALIDATE"}

RejectedUntouched ==
    /\ val.pc = "done"
    /\ val.category = "VALIDATION"
    /\ val.quota = 0
    /\ val.handlerCalls = 0
    /\ val.leases = 0
    /\ val.statements = 0

\* a sub-request that is nested, not SINGLE, carries a list payload, is not
\* a mutation or fails mutation safety
BadSub(sub) ==
    \/ sub.operation = "TRANSACTION"
    \/ sub.mode # "SINGLE"
    \/ sub.payload.kind # "dict"
    \/ sub.operation \notin {"INSERT", "UPDATE", "MERGE", "DELETE"}
    \/ sub.operation \in {"UPDATE", "DELETE"} /\ sub.where = "none"

BadTransaction(rq) ==
    /\ rq.operation = "TRANSACTION"
    /\ \/ Len(rq.operations) > MaxTransactionStatements
       \/ \E i \in 1..Len(rq.operations) : BadSub(rq.operations[i])

\* C24: a TRANSACTION with a nested TRANSACTION, a non-SINGLE or list-payload
\* or non-mutation sub-request, a sub-request failing mutation safety, or
\* more than max_transaction_statements entries is rejected in VALIDATE with
\* category VALIDATION before quota, lease or statement.
C24_BadTransactionRejected ==
    (Validated /\ BadTransaction(val.request)) => RejectedUntouched

C24_Witness ==
    /\ val.pc = "done"
    /\ val.category = "VALIDATION"
    /\ Len(val.request.operations) = MaxTransactionStatements
    /\ ~BadSub(val.request.operations[1])
    /\ val.request.operations[2].operation = "DELETE"
    /\ val.request.operations[2].where = "none"

OversizedBatch(rq) ==
    /\ rq.mode = "BATCH"
    /\ rq.operation \in {"READ", "INSERT", "UPDATE", "MERGE", "DELETE"}
    /\ rq.payload.kind = "list"
    /\ rq.payload.len > MaxBatchSize

FullBatch(rq) ==
    /\ rq.mode = "BATCH"
    /\ rq.operation \in {"READ", "INSERT", "UPDATE", "MERGE", "DELETE"}
    /\ rq.payload.kind = "list"
    /\ rq.payload.len = MaxBatchSize

C28_UnknownOptionRejected ==
    (Validated /\ val.request.options.dict
       /\ ~(val.request.options.keys \subseteq
              {"limit", "offset", "order_by", "group_by", "aggregations", "having",
               "old_values"})) =>
        /\ val.pc = "done"
        /\ val.category = "VALIDATION"
        /\ val.handlerCalls = 0

\* ------------------------------------------------------------------------
\* Outcome of a single-record mutation by row count (specification SpecWrite)
\* ------------------------------------------------------------------------
Answered == wr.pc = "done" /\ ~wr.raised

NoMatchMessages == {WriteNoMatchMessage, DeleteNoMatchMessage}

\* what holds for every operation: -1 and positive counts are successes
\* carrying the count, 0 is a failure
ByRowCount ==
    /\ wr.rc = 0 - 1 => wr.resp.success /\ wr.resp.affected_rows = 0 - 1
    /\ wr.rc > 0 => wr.resp.success /\ wr.resp.affected_rows = wr.rc
    /\ wr.rc = 0 => ~wr.resp.success /\ wr.resp.affected_rows = 0

\* C26 as stated: for INSERT/UPDATE/MERGE and for DELETE, 0 rows with
\* old_values present gives the concurrency-conflict message and 0 rows
\* without old_values the no-matching-record message.
C26_OutcomeByRowCount ==
    Answered =>
        /\ ByRowCount
        /\ (wr.rc = 0 /\ wr.old = "present") => wr.resp.message = ConflictMessage
        /\ (wr.rc = 0 /\ wr.old = "absent") => wr.resp.message \in NoMatchMessages

\* C26 amended: the conflict message is given by INSERT/UPDATE/MERGE only,
\* for a non-empty old_values; DELETE with 0 rows always gives the
\* no-matching-record message.
C26_OutcomeByRowCountWrites ==
    Answered =>
        /\ ByRowCount
        /\ (wr.rc = 0 /\ wr.op # "DELETE" /\ wr.old = "present") =>
               wr.resp.message = ConflictMessage
        /\ (wr.rc = 0 /\ (wr.op = "DELETE" \/ wr.old # "present")) =>
               wr.resp.message \in NoMatchMessages

C26_Witness ==
    /\ Answered
    /\ wr.op = "DELETE"
    /\ wr.old = "present"
    /\ wr.rc = 0
    /\ wr.resp.message = DeleteNoMatchMessage

\* C27: an UPDATE with old_values that affects 0 rows is answered with
\* success=false, affected_rows=0, a concurrency-conflict message and
\* errors[0] of category CONFLICT.
C27_ConflictCategory ==
    (Answered /\ wr.op = "UPDATE" /\ wr.old = "present" /\ wr.rc = 0) =>
        /\ ~wr.resp.success
        /\ wr.resp.affected_rows = 0
        /\ wr.resp.message = ConflictMessage
        /\ Len(wr.resp.errors) > 0
        /\ wr.resp.errors[1].category = "CONFLICT"

\* ------------------------------------------------------------------------
\* LIMIT and OFFSET of emitted SELECT statements (specification SpecSelect)
\* ------------------------------------------------------------------------
\* C29: for every SELECT emitted by ReadSingle and ReadBatch the LIMIT equals
\* min(requested limit or default_read_limit, max_read_limit) and is > 0; a
\* limit <= 0 or a negative offset is rejected; an OFFSET is emitted only
\* together with a LIMIT and an offset without limit is rejected.
C29_LimitBounded ==
    sel.pc = "done" =>
        /\ ~sel.rejected =>
               /\ sel.emittedLimit =
                      Min(IF sel.limit = Unset THEN DefaultReadLimit ELSE sel.limit,
                          MaxReadLimit)
               /\ sel.emittedLimit > 0
        /\ (sel.limit # Unset /\ sel.limit <= 0) => sel.rejected
        /\ (sel.offset # Unset /\ sel.offset < 0) => sel.rejected
        /\ (sel.offset # Unset /\ sel.limit = Unset) => sel.rejected
        /\ sel.emittedOffset # Unset => sel.emittedLimit # Unset

\* ------------------------------------------------------------------------
\* UPDATE / MERGE intents (specification SpecUpdate)
\* ------------------------------------------------------------------------
BadIntent(intent) ==
    \/ intent.updates \cap intent.pk_values # {}
    \/ intent.old_values \cap intent.pk_values # {}
    \/ intent.updates = {}
    \/ intent.pk_values = {}

\* C30: no UPDATE or MERGE statement is built or executed for an intent whose
\* updates or old_values share a key with pk_values or whose updates or
\* pk_values is empty; such a request, single or per-record in a batch, is
\* rejected before any statement reaches the driver.
C30_BadIntentRejected ==
    /\ \A intent \in upd.builtFor : ~BadIntent(intent)
    /\ (upd.pc = "done" /\ BadIntent(upd.intent)) => upd.rejected /\ upd.executed = 0

\* ------------------------------------------------------------------------
\* Bind parameters of emitted statements (specification SpecBuild)
\* ------------------------------------------------------------------------
\* C31: the placeholder names of the emitted SQL equal the keys of the
\* parameter mapping and every bound value has its own distinct name: no two
\* values of one statement share a parameter name.
C31_ParamsMatchPlaceholders ==
    bld.pc = "done" =>
        /\ bld.sqlNames = bld.params
        /\ Cardinality(bld.params) = bld.values

\* C32: a filter with operator = or IN and an empty list as value compiles
\* to an always-false predicate with no bind parameters, never to an IN with
\* an empty tuple.
C32_EmptyListIsFalse ==
    \A i \in 1..Len(bld.preds) :
        (bld.filters[i].op \in {"=", "IN"} /\ bld.filters[i].value.list
           /\ bld.filters[i].value.n = 0) =>
            /\ bld.preds[i].pred = "FALSE"
            /\ bld.preds[i].bound = 0

\* C33: each global singleton is created at most once per process even when
\* the first calls race: at most one instance is ever constructed and every
\* caller receives the same instance.
C33_SingletonCreatedOnce ==
    \A s \in Singletons :
        /\ sg.made[s] <= 1
        /\ \A c, d \in Callers :
               (sg.pc[c][s] = "done" /\ sg.pc[d][s] = "done") => sg.ret[c][s] = sg.ret[d][s]

\* C34: a request that carries the x-forwarded-access-token header in any
\* letter case and no explicit obo_token is executed under the user's OBO
\* identity, never under the service principal.
C34_HeaderAnyCaseIsObo ==
    (auth.pc = "done" /\ auth.carried /\ ~auth.explicit) => auth.identity = "OBO"

\* C37: once a statement executed inside transaction_context has timed out
\* and TimeoutError has been raised, the statement can no longer take
\* effect: from the rollback on it is neither durable nor left in an open
\* transaction of the connection.
C37_TimedOutNeverApplied ==
    (late.timedOut /\ late.pc \in {"restore", "release", "done"}) =>
        late.k \notin (late.committed \cup late.pending)

\* C40: no UPDATE or DELETE statement reaches the driver without a WHERE
\* clause containing at least one key equality: every statement handed to
\* the driver has at least one row condition and every row condition has at
\* least one equality, for single, batch and transaction mutations.
C40_NoUnconditionalMutation ==
    \A i \in 1..Len(grd.statements) :
        /\ Len(grd.statements[i]) > 0
        /\ \A j \in 1..Len(grd.statements[i]) : grd.statements[i][j] # {}

\* a batch DELETE whose payload holds an empty PK mapping next to a proper
\* one passed VALIDATE and was rejected by the builder, nothing executed
C40_Witness ==
    /\ grd.pc = "done"
    /\ grd.rejected
    /\ grd.request.mode = "BATCH" /\ grd.request.operation = "DELETE"
    /\ ~GuardValidateRaises(grd.request)
    /\ \E i, j \in 1..Len(grd.request.payload) :
           grd.request.payload[i] = {} /\ grd.request.payload[j] # {}
    /\ grd.statements = << >>

\* ------------------------------------------------------------------------
\* Per-record where of a batch UPDATE/MERGE (specification SpecBatchWhere)
\* ------------------------------------------------------------------------
\* a where list passed VALIDATE only with one non-empty mapping per record,
\* and a rejection is a VALIDATION error before any statement
WhereListChecked ==
    /\ (bw.pc \notin {"idle", "validate"} /\ ~bw.rejected /\ bw.where.list) =>
           /\ Len(bw.where.entries) = bw.n
           /\ \A i \in 1..bw.n : bw.where.entries[i] > 0
    /\ bw.rejected => bw.category = "VALIDATION" /\ bw.log = << >>

\* statement i is the one of record i, with where[i] of a list and the
\* shared where otherwise, all on the one leased connection
WherePerRecord ==
    \A j \in 1..Len(bw.log) :
        /\ bw.log[j].idx = j
        /\ bw.log[j].lease = 1
        /\ bw.log[j].where = IF bw.where.list THEN bw.where.entries[j]
                             ELSE bw.where.entries[1]

\* C35: for a batch UPDATE/MERGE a where list is accepted only with the
\* payload's length and non-empty mappings (otherwise VALIDATION); record i
\* is executed with where[i] of a list and with the shared where otherwise,
\* all on one connection inside one transaction: when a record fails no
\* record's statement stays applied.
C35_PerRecordWhereInOneTransaction ==
    /\ WhereListChecked
    /\ WherePerRecord
    /\ (bw.pc = "done" /\ bw.failedAt # 0) => bw.committed = {} /\ bw.pending = {}

\* C36: stale-session cleanup never resets a live quota: for every
\* configured window and cleanup interval and under any interleaving of
\* check and cleanup_stale, cleanup_stale never removes a session that
\* still has an admitted timestamp inside the current rate-limit window.
C36_CleanupKeepsLiveQuota == ~stale.removedLive

\* ------------------------------------------------------------------------
\* The cost of a request (specification SpecQuota)
\* ------------------------------------------------------------------------
\* a step in which THROTTLE admits a non-HEARTBEAT request of a session
ThrottleAdmits ==
    /\ quo.pc = "throttle" /\ quo'.pc = "admit"
    /\ quo.op # "HEARTBEAT" /\ quo.sid # NoSession

\* a step that records a timestamp: the deque changes and is not emptied
Records == quo'.ts # quo.ts /\ quo'.ts # << >>

\* the timestamps of a deque that count against the quota at `now`
Counted(ts, now) == SelectSeq(ts, LAMBDA t : t > now - WindowSeconds)

\* a request that ended after THROTTLE had admitted it for its session
ChargedAndEnded ==
    /\ quo.pc = "done"
    /\ quo.outcome \in {"ADMISSION", "FAILED", "SUCCESS"}
    /\ quo.op # "HEARTBEAT" /\ quo.sid # NoSession

\* C38: a rate-limit timestamp is recorded for a session exactly in the step
\* in which THROTTLE admits a non-HEARTBEAT request of that session that
\* passed VALIDATE; a request rejected in VALIDATE or by THROTTLE records
\* nothing and leaves the timestamps that count against the quota as they
\* were, and a request rejected by the admission gate or failing in its
\* handler has recorded one timestamp, which stays while it is in the window.
C38_QuotaConsumedAtThrottle ==
    /\ [][Records <=> ThrottleAdmits]_vars
    /\ [](quo.outcome \in {"VALIDATION", "THROTTLED"} =>
             /\ quo.rec = 0
             /\ Counted(quo.ts, quo.now) = Counted(quo.before, quo.now))
    /\ [](ChargedAndEnded =>
             /\ quo.valid /\ quo.rec = 1
             /\ quo.stamp > quo.now - WindowSeconds =>
                    \E i \in 1..Len(quo.ts) : quo.ts[i] = quo.stamp)

\* a request that THROTTLE charged was then turned away by the full gate
C38_Witness ==
    /\ quo.pc = "done" /\ quo.outcome = "ADMISSION"
    /\ quo.rec = 1 /\ Len(quo.ts) = MaxRequests

\* the response that process returns was built by _shape_response
ShapedResponse ==
    /\ call.pc \in {"observe", "done"}
    /\ call.failedAt = None
    /\ call.resp.present

\* C39: in every response metadata.schema_resolved == true implies that the
\* response's schema and columns hold the resolved table columns, also when
\* the handler returned an OperationResponse; when resolution was skipped or
\* failed the flag is absent.
C39_SchemaResolvedHasSchema ==
    ShapedResponse =>
        /\ SchemaResolvedFlag(call.handler, call.resolved) => call.resp.schema = "columns"
        /\ ~call.resolved => ~SchemaResolvedFlag(call.handler, call.resolved)

====
